---- MODULE Spec2Model ----
(***************************************************************************)
(* Content-plan -> Jira pipeline of noktah-dashboard (service/prefect).     *)
(*                                                                         *)
(* Text values (file names, summaries, cell values) are sequences of       *)
(* tokens; the token " " is whitespace.  Python dictionaries whose keys    *)
(* may be missing are records with explicit presence flags.                *)
(***************************************************************************)
EXTENDS Integers, Sequences, FiniteSets, TLC

VARIABLES
    pc,                 \* position of the scenario being run
    issue_updates,      \* validate_bulk_issue_data: input list
    max_issues,         \* validate_bulk_issue_data / create_issues_bulk: cap
    validation_result,  \* validate_bulk_issue_data: returned dict
    bulk_result,        \* create_issues_bulk: returned dict
    posted,             \* payloads sent by requests.post to /issue/bulk
    bulk_response,      \* what the tracker and the transport answered to that call
    clients,            \* rows of the roster sheet ("Clients")
    search_result,      \* search_content_plan_files_flow: returned dict
    drive_queries,      \* folder ids passed to google_filter_files_in_folder
    drive_raised,       \* roster numbers whose google_filter_files_in_folder call raised
    row,                \* convert_content_plan_row_to_jira_issue: the row
    client_name,        \* convert_content_plan_row_to_jira_issue: the client
    jira_issue,         \* convert_content_plan_row_to_jira_issue: the result
    content_plans,      \* read_content_plan_data_flow's "content_plans"
    convert_result,     \* convert_content_plan_to_jira_assets_flow: returned dict
    invoked,            \* main: the steps called so far, in order
    step_result,        \* main: step1_result .. step8_result
    snapshots,          \* main: step files written with save_to_json
    plan_list,          \* read_content_plan_data_flow: content_plan_list
    fetch_result,       \* read_content_plan_data_flow: returned dict
    fetch_log,          \* read_content_plan_data_flow: sheet reads and sleeps, in order
    client_files,       \* submission flows: the per-client JSON files
    validate_only,      \* submission flows: the validate_only argument
    flow_max_issues,    \* submission flows: the max_issues argument
    flow_result,        \* submission flows: returned dict
    tracker_calls,      \* submission flows: calls that reach Jira, in order
    date_input,         \* get_date: the date_input argument
    now,                \* get_date: datetime.now()
    offset_months,      \* get_date: the offset_months argument
    language,           \* get_date: the language argument
    date_result,        \* get_date: the label returned, or the raise
    values,             \* the value rows of the sheet as the Sheets API returns them
    max_rows,           \* format_data_processor_flow: the max_rows argument (0 = None)
    format_result,      \* format_data_processor_flow: returned dict
    world,              \* the Google side, the roster, the documents and the tracker of one run
    disk,               \* files of the run directory, by path
    io_log,             \* reads, queries, saves and tracker calls issued, in order
    returned            \* the dict each stage called has returned, by stage

submitVars == <<issue_updates, max_issues, validation_result, bulk_result, posted, bulk_response>>
searchVars == <<clients, search_result, drive_queries, drive_raised>>

rowVars == <<row, client_name, jira_issue>>
convertVars == <<content_plans, convert_result>>

mainVars == <<invoked, step_result, snapshots>>
fetchVars == <<plan_list, fetch_result, fetch_log>>
flowVars == <<client_files, validate_only, flow_max_issues, flow_result, tracker_calls>>
dateVars == <<date_input, now, offset_months, language, date_result>>
sheetVars == <<values, max_rows, format_result>>
runVars == <<world, disk, io_log, returned>>

nonSubmitVars == <<searchVars, rowVars, convertVars, mainVars, fetchVars, flowVars, dateVars, sheetVars, runVars>>
nonSearchVars == <<submitVars, rowVars, convertVars, mainVars, fetchVars, flowVars, dateVars, sheetVars, runVars>>
nonRowVars == <<submitVars, searchVars, convertVars, mainVars, fetchVars, flowVars, dateVars, sheetVars, runVars>>
nonConvertVars == <<submitVars, searchVars, rowVars, mainVars, fetchVars, flowVars, dateVars, sheetVars, runVars>>
nonMainVars ==
    <<submitVars, search_result, drive_queries, drive_raised, rowVars, convertVars,
      fetchVars, flowVars, dateVars, sheetVars, runVars>>
nonFetchVars == <<submitVars, searchVars, rowVars, convertVars, mainVars, flowVars, dateVars, sheetVars, runVars>>
nonFlowVars == <<submitVars, searchVars, rowVars, convertVars, mainVars, fetchVars, dateVars, sheetVars, runVars>>

nonDateVars ==
    <<submitVars, searchVars, rowVars, convertVars, mainVars, fetchVars, flowVars, sheetVars, runVars>>

nonSheetVars ==
    <<submitVars, searchVars, rowVars, convertVars, mainVars, fetchVars, flowVars, dateVars, runVars>>

nonRunVars ==
    <<submitVars, searchVars, rowVars, convertVars, mainVars, fetchVars, flowVars, dateVars, sheetVars>>

vars ==
    <<pc, submitVars, searchVars, rowVars, convertVars, mainVars, fetchVars, flowVars, dateVars, sheetVars, runVars>>

\* ------------------------------------------------------------------------
\* Bounds of the model
\* ------------------------------------------------------------------------
MaxIssueList == 3
MaxCap == 3
MaxClients == 3
MaxFiles == 2
MaxPlans == 2
\* rows fetched in one run, all content plans together
MaxRows == 3
\* largest offset_months, in either direction
MaxOffset == 13
\* data rows of a sheet
MaxSheetRows == 3

\* rows of the roster in a run of the whole pipeline
MaxRunClients == 2

\* ------------------------------------------------------------------------
\* Generic helpers
\* ------------------------------------------------------------------------
SeqsUpTo(S, n) == UNION {[1..k -> S] : k \in 0..n}

Take(s, n) == [i \in 1..(IF n < Len(s) THEN n ELSE Len(s)) |-> s[i]]

Min(a, b) == IF a < b THEN a ELSE b

\* str.strip(): drop leading and trailing whitespace tokens
RECURSIVE LStrip(_)
LStrip(s) == IF s # <<>> /\ Head(s) = " " THEN LStrip(Tail(s)) ELSE s

RECURSIVE RStrip(_)
RStrip(s) ==
    IF s # <<>> /\ s[Len(s)] = " " THEN RStrip(SubSeq(s, 1, Len(s) - 1)) ELSE s

Strip(s) == RStrip(LStrip(s))

\* ------------------------------------------------------------------------
\* Issue records handed to validate_bulk_issue_data
\* ------------------------------------------------------------------------
\* A dict-valued field that must carry one property ("key" for project,
\* "id" for issuetype): present = the field is in `fields`, isDict = the
\* value is a dict, has = the property is in that dict, val = its value.
RefAbsent == [present |-> FALSE, isDict |-> FALSE, has |-> FALSE, val |-> ""]
RefNotDict == [present |-> TRUE, isDict |-> FALSE, has |-> FALSE, val |-> ""]
RefNoProp == [present |-> TRUE, isDict |-> TRUE, has |-> FALSE, val |-> ""]
Ref(v) == [present |-> TRUE, isDict |-> TRUE, has |-> TRUE, val |-> v]

\* The summary field: kind "str" carries text, "null" is None, "int" is a
\* value without a strip() method.
SummaryAbsent == [present |-> FALSE, kind |-> "str", text |-> <<>>]
SummaryNull == [present |-> TRUE, kind |-> "null", text |-> <<>>]
SummaryInt == [present |-> TRUE, kind |-> "int", text |-> <<>>]
SummaryStr(t) == [present |-> TRUE, kind |-> "str", text |-> t]

Issue(hf, p, t, s) == [hasFields |-> hf, project |-> p, issuetype |-> t, summary |-> s]

ProjectESKL == Ref("ESKL")
IssuetypeAsset == Ref("10009")

IssueUpdates ==
    { Issue(TRUE, ProjectESKL, IssuetypeAsset, SummaryStr(<<"Launch post">>)),
      Issue(TRUE, ProjectESKL, IssuetypeAsset, SummaryStr(<<" ", "Second post">>)),
      Issue(FALSE, RefAbsent, RefAbsent, SummaryAbsent),
      Issue(TRUE, RefAbsent, IssuetypeAsset, SummaryStr(<<"Launch post">>)),
      Issue(TRUE, RefNoProp, IssuetypeAsset, SummaryStr(<<"Launch post">>)),
      Issue(TRUE, Ref(""), IssuetypeAsset, SummaryStr(<<"Launch post">>)),
      Issue(TRUE, ProjectESKL, RefNotDict, SummaryStr(<<"Launch post">>)),
      Issue(TRUE, ProjectESKL, Ref(""), SummaryStr(<<"Launch post">>)),
      Issue(TRUE, ProjectESKL, IssuetypeAsset, SummaryAbsent),
      Issue(TRUE, ProjectESKL, IssuetypeAsset, SummaryStr(<<" ">>)),
      Issue(TRUE, ProjectESKL, IssuetypeAsset, SummaryNull),
      Issue(TRUE, ProjectESKL, IssuetypeAsset, SummaryInt) }

\* ------------------------------------------------------------------------
\* validate_bulk_issue_data (jira_tasks.py)
\* ------------------------------------------------------------------------
\* fields["summary"].strip() raises AttributeError when the value is not a
\* string; the exception leaves the loop and reaches the outer handler.
IssueRaises(iu) ==
    iu.hasFields /\ iu.summary.present /\ iu.summary.kind # "str"

\* the list of reasons collected for one record (loop body, lines 704-738)
IssueErrors(iu) ==
    IF ~iu.hasFields THEN <<"Missing 'fields' property">>
    ELSE
        (IF ~iu.project.present THEN <<"Missing required field: project">> ELSE <<>>)
     \o (IF ~iu.summary.present THEN <<"Missing required field: summary">> ELSE <<>>)
     \o (IF ~iu.issuetype.present THEN <<"Missing required field: issuetype">> ELSE <<>>)
     \o (IF iu.project.present /\ (~iu.project.isDict \/ ~iu.project.has)
            THEN <<"Project must have 'key' property">> ELSE <<>>)
     \o (IF iu.issuetype.present /\ (~iu.issuetype.isDict \/ ~iu.issuetype.has)
            THEN <<"Issuetype must have 'id' property">> ELSE <<>>)
     \o (IF iu.summary.present /\ Strip(iu.summary.text) = <<>>
            THEN <<"Summary cannot be empty">> ELSE <<>>)

\* issue_valid at the end of the loop body
IssueValid(iu) == IssueErrors(iu) = <<>>

\* the valid records collected newest first
ValidIssuesOf_Mutant(ius) ==
    LET v == SelectSeq(ius, IssueValid)
    IN [k \in 1..Len(v) |-> v[Len(v) + 1 - k]]

RECURSIVE ValidIssuesOf(_)
ValidIssuesOf(ius) ==
    IF ius = <<>> THEN <<>>
    ELSE (IF IssueValid(Head(ius)) THEN <<Head(ius)>> ELSE <<>>)
         \o ValidIssuesOf(Tail(ius))

RECURSIVE InvalidIssuesFrom(_, _)
InvalidIssuesFrom(ius, index) ==
    IF ius = <<>> THEN <<>>
    ELSE (IF IssueValid(Head(ius)) THEN <<>>
          ELSE <<[index |-> index, issue |-> Head(ius), errors |-> IssueErrors(Head(ius))]>>)
         \o InvalidIssuesFrom(Tail(ius), index + 1)

\* the cap test written with >= instead of >
CapWarnings_Mutant(valid, n) ==
    IF Len(valid) >= n THEN <<[from |-> Len(valid), to |-> n]>> ELSE <<>>

\* the cap of lines 749-754: warning text "Limiting from {from} to {to} issues"
CapWarnings(valid, n) ==
    IF Len(valid) > n THEN <<[from |-> Len(valid), to |-> n]>> ELSE <<>>

validate_bulk_issue_data(ius, n) ==
    IF \E i \in 1..Len(ius) : IssueRaises(ius[i])
    THEN [status |-> "error", error |-> "AttributeError", original_count |-> Len(ius)]
    ELSE LET valid == ValidIssuesOf(ius)
             invalid == InvalidIssuesFrom(ius, 0)
             capped == Take(valid, n)
         IN [status |-> "success",
             original_count |-> Len(ius),
             valid_issues |-> capped,
             invalid_issues |-> invalid,
             warnings |-> CapWarnings(valid, n),
             final_count |-> Len(capped),
             invalid_count |-> Len(invalid)]

\* ------------------------------------------------------------------------
\* create_issues_bulk (jira_tasks.py)
\* ------------------------------------------------------------------------
\* What the tracker and the transport can answer to one call.
\*   "load_error": JiraCredentials.load / get_client raises, nothing is sent
\*   "transport":  requests.post raises
\*   "http":       a response with a status code and, for 201, a JSON body
BulkResponses ==
    { [kind |-> "load_error", code |-> 0, issues |-> <<>>, errors |-> <<>>],
      [kind |-> "transport", code |-> 0, issues |-> <<>>, errors |-> <<>>],
      [kind |-> "http", code |-> 400, issues |-> <<>>, errors |-> <<>>] }
    \cup { [kind |-> "http", code |-> 201, issues |-> c, errors |-> e] :
             c \in {<<>>, <<"ESKL-1">>, <<"ESKL-1", "ESKL-2">>},
             e \in {<<>>, <<"summary is required">>} }

\* the payload after the limit of lines 541-543
BulkPayload(ius, n) == IF Len(ius) > n THEN Take(ius, n) ELSE ius

\* the per-item errors dropped as soon as something was created
create_issues_bulk_Mutant(ius, n, resp) ==
    LET payload == BulkPayload(ius, n) IN
    IF resp.kind # "http"
    THEN [status |-> "error", error |-> resp.kind, total_requested |-> Len(payload)]
    ELSE IF resp.code = 201
    THEN [status |-> "success",
          created_issues |-> resp.issues,
          errors |-> IF resp.issues = <<>> THEN resp.errors ELSE <<>>,
          total_requested |-> Len(payload),
          total_created |-> Len(resp.issues),
          total_errors |-> IF resp.issues = <<>> THEN Len(resp.errors) ELSE 0]
    ELSE [status |-> "error", error |-> "Bulk issue creation failed",
          response_text |-> "body", status_code |-> resp.code]

create_issues_bulk(ius, n, resp) ==
    LET payload == BulkPayload(ius, n) IN
    IF resp.kind # "http"
    THEN [status |-> "error", error |-> resp.kind, total_requested |-> Len(payload)]
    ELSE IF resp.code = 201
    THEN [status |-> "success",
          created_issues |-> resp.issues,
          errors |-> resp.errors,
          total_requested |-> Len(payload),
          total_created |-> Len(resp.issues),
          total_errors |-> Len(resp.errors)]
    ELSE [status |-> "error", error |-> "Bulk issue creation failed",
          response_text |-> "body", status_code |-> resp.code]

\* @task(name="jira.issue-bulk.create", retries=2, ...)
TaskRetries == 2

\* an exception that gets past "except Exception" (lines 610-616) and leaves
\* the task: none of the failures of the call does
EscapesTask_Mutant(resp) == resp.kind = "transport"

EscapesTask(resp) == resp.kind \notin {"load_error", "transport", "http"}

\* runs of the task body for one call: the engine runs it again, up to
\* `retries` times, only when an exception left it
TaskAttempts(resp) == IF EscapesTask(resp) THEN TaskRetries + 1 ELSE 1

\* the bulk-create requests one call of the task puts on the wire
Requests(ius, n, resp) ==
    IF resp.kind = "load_error" THEN <<>>
    ELSE [k \in 1..TaskAttempts(resp) |-> BulkPayload(ius, n)]

\* ------------------------------------------------------------------------
\* Roster and document store
\* ------------------------------------------------------------------------
None == "None"

\* "x in s" on text: s contains sub as a contiguous run
Contains(s, sub) ==
    \E i \in 1..(Len(s) - Len(sub) + 1) : SubSeq(s, i, i + Len(sub) - 1) = sub

\* a roster row; a missing column reads as "" through client.get(..., "")
ClientRows ==
    { [Name |-> "Acme", FolderID |-> "folder-acme"],
      [Name |-> "Acme", FolderID |-> ""],
      [Name |-> "", FolderID |-> "folder-acme"] }

SearchMonth == "September 2025"

\* f"Content Plan - {client_name} - {search_month}"
ExpectedFilename(name, search_month) ==
    <<"Content Plan - ", name, " - ", search_month>>

\* names a file of the folder can have: the expected name, the expected name
\* with a leading blank, a name that contains it, a name that does not
FileNames ==
    { ExpectedFilename("Acme", SearchMonth),
      <<" ">> \o ExpectedFilename("Acme", SearchMonth),
      <<"Copy of ">> \o ExpectedFilename("Acme", SearchMonth),
      <<"Content Plan - ", "Acme", "2", " - ", SearchMonth>> }

FileId(i) == "file" \o ToString(i)

FileLists ==
    { [i \in 1..Len(ns) |-> [id |-> FileId(i), name |-> ns[i]]] :
        ns \in SeqsUpTo(FileNames, MaxFiles) }

\* what google_filter_files_in_folder does for one folder: a list or a raise
DriveResponses ==
    { [raises |-> FALSE, files |-> fl] : fl \in FileLists }
    \cup { [raises |-> TRUE, files |-> <<>>] }

\* the answers of the document store to the folders in `indexes`, one per
\* folder, that hold at most `budget` files together
RECURSIVE DriveAnswers(_, _)
DriveAnswers(indexes, budget) ==
    IF indexes = {} THEN { <<>> }
    ELSE LET i == CHOOSE x \in indexes : \A y \in indexes : x <= y
         IN UNION { { (i :> r) @@ rest :
                        rest \in DriveAnswers(indexes \ {i}, budget - Len(r.files)) } :
                      r \in {x \in DriveResponses : Len(x.files) <= budget} }

\* ------------------------------------------------------------------------
\* Reading a sheet (google_credentials.py, google_tasks.py)
\* ------------------------------------------------------------------------
\* GoogleClient.read_sheet_data: "if max_rows and len(values) > max_rows";
\* limit = 0 stands for None (and for 0, falsy as well)
read_sheet_data(vals, limit) ==
    IF limit # 0 /\ Len(vals) > limit THEN Take(vals, limit) ELSE vals

\* row + [''] * (max_cols - len(row)), then [:max_cols]
NormalizedRow(r, max_cols) ==
    [c \in 1..max_cols |-> IF c <= Len(r) THEN r[c] ELSE ""]

\* GoogleClient.to_dataframe with header_row = 0: the column labels and the
\* data rows of the DataFrame
to_dataframe(vals, limit) ==
    LET data == read_sheet_data(vals, limit) IN
    IF data = <<>> THEN [columns |-> <<>>, rows |-> <<>>]
    ELSE LET headers == data[1]
             data_rows == SubSeq(data, 2, Len(data))
         IN [columns |-> headers,
             rows |-> [k \in 1..Len(data_rows) |->
                          NormalizedRow(data_rows[k], Len(headers))]]

\* df.to_dict('records'): one dict per row; with a repeated column label the
\* last column wins
SheetRecord(columns, r) ==
    [h \in {columns[c] : c \in 1..Len(columns)} |->
        r[CHOOSE c \in 1..Len(columns) :
              columns[c] = h /\ \A e \in (c + 1)..Len(columns) : columns[e] # h]]

\* google_read_sheet_data: [] when df.empty (no row or no column)
google_read_sheet_data(vals, limit) ==
    LET df == to_dataframe(vals, limit) IN
    IF df.rows = <<>> \/ df.columns = <<>> THEN <<>>
    ELSE [k \in 1..Len(df.rows) |-> SheetRecord(df.columns, df.rows[k])]

\* ------------------------------------------------------------------------
\* format_data_processor_flow
\* ------------------------------------------------------------------------
\* process_row_uniform, without the formatted copy of the cells
process_row_uniform(r, row_index) == [row_index |-> row_index, original_data |-> r]

\* mode: how the Google side answers at stage entry (ReadModes)
format_data_processor_flow(mode, vals, limit) ==
    LET raw_data == google_read_sheet_data(vals, limit) IN
    IF mode = "conn_failed"
    THEN [max_rows |-> limit, processed_rows |-> <<>>,
          error |-> "Google API connection failed"]
    ELSE IF mode = "raises"
    THEN [max_rows |-> limit, processed_rows |-> <<>>, error |-> "exception"]
    ELSE IF mode = "sheet_missing"
    THEN [max_rows |-> limit, processed_rows |-> <<>>, error |-> "Sheet not found"]
    ELSE IF raw_data = <<>>
    THEN [max_rows |-> limit, processed_rows |-> <<>>,
          error |-> "No data found in the spreadsheet"]
    ELSE [max_rows |-> limit,
          processed_rows |-> [k \in 1..Len(raw_data) |->
                                 process_row_uniform(raw_data[k], k)],
          total_rows_processed |-> Len(raw_data)]

\* ------------------------------------------------------------------------
\* read_content_plan_flow
\* ------------------------------------------------------------------------
\* mode: how the Google side answers at stage entry
ReadModes == {"ok", "conn_failed", "sheet_missing", "raises"}

read_content_plan_flow(mode, rows) ==
    IF mode = "conn_failed"
    THEN [data |-> <<>>, error |-> "Google API connection failed"]
    ELSE IF mode = "raises"
    THEN [data |-> <<>>, error |-> "exception"]
    ELSE IF mode = "sheet_missing"
    THEN [data |-> <<>>, error |-> "Sheet not found"]
    ELSE IF rows = <<>>
    THEN [data |-> <<>>, error |-> "No content data found in the spreadsheet"]
    ELSE [data |-> rows, total_rows |-> Len(rows)]

\* ------------------------------------------------------------------------
\* search_content_plan_files_flow
\* ------------------------------------------------------------------------
\* exact_match = None
NoFile == [id |-> None, name |-> <<>>]

\* the scan of lines 209-219
RECURSIVE FindMatch(_, _)
FindMatch(matching_files, expected_filename) ==
    IF matching_files = <<>> THEN NoFile
    ELSE LET file == Head(matching_files)
             file_name == Strip(file.name)
         IN IF file_name = expected_filename THEN file
            ELSE IF Contains(file_name, expected_filename) THEN file
            ELSE FindMatch(Tail(matching_files), expected_filename)

\* the folder reference not looked at
Searchable_Mutant(client) == client.Name # ""

\* "if not client_name or not content_plan_folder_id: continue"
Searchable(client) == client.Name # "" /\ client.FolderID # ""

SearchableIndexes(rows) == {i \in 1..Len(rows) : Searchable(rows[i])}

\* one iteration of the loop of lines 188-258; out/detail/queries are what the
\* iteration appends to output_list, results["clients"] and the Drive calls
SearchClient(client, index, search_month, resp) ==
    IF ~Searchable(client)
    THEN [out |-> <<>>, detail |-> <<>>, queries |-> <<>>]
    ELSE LET expected_filename == ExpectedFilename(client.Name, search_month)
             r == resp[index]
             exact_match == FindMatch(r.files, expected_filename)
         IN IF r.raises
            THEN [out |-> <<[number |-> index, client_name |-> client.Name,
                            content_plan_id |-> None, error |-> "exception"]>>,
                  detail |-> <<[client_name |-> client.Name,
                               content_plan_folder_id |-> client.FolderID,
                               expected_filename |-> expected_filename,
                               error |-> "exception"]>>,
                  queries |-> <<client.FolderID>>]
            ELSE [out |-> <<[number |-> index, client_name |-> client.Name,
                            content_plan_id |-> exact_match.id]>>,
                  detail |-> <<[client_name |-> client.Name,
                               content_plan_folder_id |-> client.FolderID,
                               expected_filename |-> expected_filename,
                               files_found |-> r.files,
                               exact_match |-> exact_match]>>,
                  queries |-> <<client.FolderID>>]

\* the loop left at the first client whose query raises
RECURSIVE SearchClients_Mutant(_, _, _, _)
SearchClients_Mutant(rows, index, search_month, resp) ==
    IF index > Len(rows) THEN [out |-> <<>>, detail |-> <<>>, queries |-> <<>>]
    ELSE LET one == SearchClient(rows[index], index, search_month, resp)
             rest == IF Searchable(rows[index]) /\ resp[index].raises
                     THEN [out |-> <<>>, detail |-> <<>>, queries |-> <<>>]
                     ELSE SearchClients_Mutant(rows, index + 1, search_month, resp)
         IN [out |-> one.out \o rest.out,
             detail |-> one.detail \o rest.detail,
             queries |-> one.queries \o rest.queries]

RECURSIVE SearchClients(_, _, _, _)
SearchClients(rows, index, search_month, resp) ==
    IF index > Len(rows) THEN [out |-> <<>>, detail |-> <<>>, queries |-> <<>>]
    ELSE LET one == SearchClient(rows[index], index, search_month, resp)
             rest == SearchClients(rows, index + 1, search_month, resp)
         IN [out |-> one.out \o rest.out,
             detail |-> one.detail \o rest.detail,
             queries |-> one.queries \o rest.queries]

\* "if item.get('content_plan_id')"
HasPlan(item) == item.content_plan_id # None

CountWithPlan(items) == Cardinality({i \in 1..Len(items) : HasPlan(items[i])})

\* the flow: roster read, then the loop, then the summary.  The record
\* returned carries the Drive calls made as `queries`.
search_content_plan_files_flow(mode, rows, search_month, resp) ==
    LET client_data_result == read_content_plan_flow(mode, rows) IN
    IF "error" \in DOMAIN client_data_result
    THEN [clients |-> <<>>, queries |-> <<>>, error |-> "Failed to get client data"]
    ELSE LET loop == SearchClients(client_data_result.data, 1, search_month, resp)
             output_list == loop.out
         IN [clients |-> loop.detail,
             queries |-> loop.queries,
             output |-> output_list,
             summary |-> [total_clients |-> Len(client_data_result.data),
                          clients_processed |-> Len(output_list),
                          clients_with_content_plans |-> CountWithPlan(output_list),
                          clients_without_content_plans |->
                              Len(output_list) - CountWithPlan(output_list),
                          search_month |-> search_month]]

\* ------------------------------------------------------------------------
\* Calendar arithmetic of datetime (date - timedelta(days = n))
\* ------------------------------------------------------------------------
IsLeap(y) == y % 4 = 0 /\ (y % 100 # 0 \/ y % 400 = 0)

DaysInMonth(y, m) ==
    IF m = 2 THEN (IF IsLeap(y) THEN 29 ELSE 28)
    ELSE IF m \in {4, 6, 9, 11} THEN 30 ELSE 31

DaysBeforeYear(y) ==
    (y - 1) * 365 + (y - 1) \div 4 - (y - 1) \div 100 + (y - 1) \div 400

RECURSIVE DaysBeforeMonth(_, _)
DaysBeforeMonth(y, m) ==
    IF m = 1 THEN 0 ELSE DaysBeforeMonth(y, m - 1) + DaysInMonth(y, m - 1)

\* date.toordinal()
ToOrdinal(dt) == DaysBeforeYear(dt.y) + DaysBeforeMonth(dt.y, dt.m) + dt.d

\* date.fromordinal(): the year by 400/100/4/1-year cycles, then the month
\* from the estimate (n + 50) >> 5, lowered by one when it overshoots
FromOrdinal(ordinal) ==
    LET n0 == ordinal - 1
        n400 == n0 \div 146097
        r400 == n0 % 146097
        n100 == r400 \div 36524
        r100 == r400 % 36524
        n4 == r100 \div 1461
        r4 == r100 % 1461
        n1 == r4 \div 365
        r1 == r4 % 365
        year == n400 * 400 + 1 + n100 * 100 + n4 * 4 + n1
    IN IF n1 = 4 \/ n100 = 4
       THEN [y |-> year - 1, m |-> 12, d |-> 31]
       ELSE LET guess == (r1 + 50) \div 32
                month == IF DaysBeforeMonth(year, guess) > r1 THEN guess - 1 ELSE guess
            IN [y |-> year, m |-> month, d |-> r1 - DaysBeforeMonth(year, month) + 1]

MinusDays(dt, n) == FromOrdinal(ToOrdinal(dt) - n)

\* ------------------------------------------------------------------------
\* get_date (utility_tasks.py)
\* ------------------------------------------------------------------------
indonesian_months ==
    << "Januari", "Februari", "Maret", "April", "Mei", "Juni", "Juli", "Agustus",
       "September", "Oktober", "November", "Desember" >>

english_months ==
    << "January", "February", "March", "April", "May", "June", "July", "August",
       "September", "October", "November", "December" >>

\* the reverse mappings, Indonesian names tried first; 0 = unknown name
MonthNumber(month_name) ==
    IF \E i \in 1..12 : indonesian_months[i] = month_name
    THEN CHOOSE i \in 1..12 : indonesian_months[i] = month_name
    ELSE IF \E i \in 1..12 : english_months[i] = month_name
    THEN CHOOSE i \in 1..12 : english_months[i] = month_name
    ELSE 0

\* datetime(year, month, day): ok = no ValueError
MakeDate(y, m, d) ==
    IF y \in 1..9999 /\ m \in 1..12 /\ d \in 1..DaysInMonth(y, m)
    THEN [ok |-> TRUE, y |-> y, m |-> m, d |-> d]
    ELSE [ok |-> FALSE, y |-> 0, m |-> 0, d |-> 0]

\* the two while loops of lines 124-129
RECURSIVE RollMonth(_, _)
RollMonth(target_year, target_month) ==
    IF target_month > 12 THEN RollMonth(target_year + 1, target_month - 12)
    ELSE IF target_month < 1 THEN RollMonth(target_year - 1, target_month + 12)
    ELSE [y |-> target_year, m |-> target_month]

\* lines 118-131: target_date = datetime(target_year, target_month, now.day)
OffsetDate(today, offset) ==
    LET t == RollMonth(today.y, today.m + offset)
    IN MakeDate(t.y, t.m, today.d)

\* date_input: None, or a text split on whitespace into `parts` words, the
\* first one month_name and the second one the digits of year
NoDateInput == [given |-> FALSE, parts |-> 0, month_name |-> "", year |-> 0]
DateInput(month_name, year) ==
    [given |-> TRUE, parts |-> 2, month_name |-> month_name, year |-> year]

\* lines 97-115
ParsedDate(input) ==
    IF input.parts = 2 /\ MonthNumber(input.month_name) # 0
    THEN MakeDate(input.year, MonthNumber(input.month_name), 1)
    ELSE [ok |-> FALSE, y |-> 0, m |-> 0, d |-> 0]

\* get_date with format_type = "month_year": the label f"{month} {year}" as
\* its two parts, or the exception that leaves the task
get_date(input, today, offset, lang) ==
    LET target_date == IF input.given THEN ParsedDate(input)
                       ELSE OffsetDate(today, offset)
        month_names == IF lang = "indonesian" THEN indonesian_months ELSE english_months
    IN IF target_date.ok
       THEN [raised |-> FALSE, month_name |-> month_names[target_date.m],
             year |-> target_date.y]
       ELSE [raised |-> TRUE, month_name |-> "", year |-> 0]

\* ------------------------------------------------------------------------
\* Date text and datetime.strptime / strftime
\* ------------------------------------------------------------------------
\* A cell text is empty, free text, or three digit groups around one
\* separator; a digit group has a value v and a width w (number of digits).
\* pad = the text has surrounding blanks.
NoGroup == [v |-> 0, w |-> 0]
EmptyText == [kind |-> "empty", pad |-> FALSE, sep |-> "", f |-> <<NoGroup, NoGroup, NoGroup>>]
FreeText(pad) == [kind |-> "free", pad |-> pad, sep |-> "", f |-> <<NoGroup, NoGroup, NoGroup>>]
DateText(sep, a, b, c, pad) == [kind |-> "date", pad |-> pad, sep |-> sep, f |-> <<a, b, c>>]

\* str.strip() on a cell text
StripText(t) == [t EXCEPT !.pad = FALSE]

\* the list with month/day tried before day/month
date_formats_Mutant ==
    << [sep |-> "-", dir |-> <<"Y", "m", "d">>],
       [sep |-> "/", dir |-> <<"m", "d", "Y">>],
       [sep |-> "/", dir |-> <<"d", "m", "Y">>],
       [sep |-> "-", dir |-> <<"d", "m", "Y">>],
       [sep |-> "/", dir |-> <<"Y", "m", "d">>],
       [sep |-> "/", dir |-> <<"m", "d", "y">>],
       [sep |-> "/", dir |-> <<"d", "m", "y">>],
       [sep |-> "-", dir |-> <<"d", "m", "y">>] >>

\* date_formats of format_date_for_jira, in order
date_formats ==
    << [sep |-> "-", dir |-> <<"Y", "m", "d">>],
       [sep |-> "/", dir |-> <<"d", "m", "Y">>],
       [sep |-> "/", dir |-> <<"m", "d", "Y">>],
       [sep |-> "-", dir |-> <<"d", "m", "Y">>],
       [sep |-> "/", dir |-> <<"Y", "m", "d">>],
       [sep |-> "/", dir |-> <<"d", "m", "y">>],
       [sep |-> "/", dir |-> <<"m", "d", "y">>],
       [sep |-> "-", dir |-> <<"d", "m", "y">>] >>

IsoFormat == date_formats[1]

\* one directive against one digit group
GroupMatches(dir, g) ==
    IF dir = "Y" THEN g.w = 4
    ELSE IF dir = "y" THEN g.w = 2
    ELSE IF dir = "m" THEN g.w \in {1, 2} /\ g.v \in 1..12
    ELSE g.w \in {1, 2} /\ g.v \in 1..31

\* position of a directive in a format
DirIndex(fmt, dir) == CHOOSE i \in 1..3 : fmt.dir[i] = dir

FullYear(fmt, t) ==
    IF \E i \in 1..3 : fmt.dir[i] = "Y" THEN t.f[DirIndex(fmt, "Y")].v
    ELSE LET yy == t.f[DirIndex(fmt, "y")].v
         IN IF yy < 69 THEN 2000 + yy ELSE 1900 + yy

\* datetime.strptime(t, fmt): ok = no ValueError
Strptime(t, fmt) ==
    LET shaped == /\ t.kind = "date" /\ ~t.pad /\ t.sep = fmt.sep
                  /\ \A i \in 1..3 : GroupMatches(fmt.dir[i], t.f[i])
        y == FullYear(fmt, t)
        m == t.f[DirIndex(fmt, "m")].v
        d == t.f[DirIndex(fmt, "d")].v
    IN IF shaped /\ y >= 1 /\ d <= DaysInMonth(y, m)
       THEN [ok |-> TRUE, y |-> y, m |-> m, d |-> d]
       ELSE [ok |-> FALSE, y |-> 0, m |-> 0, d |-> 0]

\* strftime("%Y-%m-%d")
Strftime(dt) ==
    DateText("-", [v |-> dt.y, w |-> 4], [v |-> dt.m, w |-> 2], [v |-> dt.d, w |-> 2], FALSE)

\* indexes of the formats that parse the stripped text
ParsingFormats(t) ==
    {i \in 1..Len(date_formats) : Strptime(StripText(t), date_formats[i]).ok}

\* format_date_for_jira on a string: first format that parses, else the
\* value unchanged
format_date_for_jira(date_value) ==
    IF date_value.kind = "empty" /\ ~date_value.pad THEN EmptyText
    ELSE IF ParsingFormats(date_value) # {}
    THEN LET i == CHOOSE k \in ParsingFormats(date_value) :
                      \A j \in ParsingFormats(date_value) : k <= j
         IN Strftime(Strptime(StripText(date_value), date_formats[i]))
    ELSE date_value

\* ------------------------------------------------------------------------
\* Content rows and lookup tables
\* ------------------------------------------------------------------------
\* a cell of a row: present = the column exists in the row, text = its value
NoCell(blank) == [present |-> FALSE, text |-> blank]
Cell(t) == [present |-> TRUE, text |-> t]

\* a row (a dict of the DataFrame) or a value that is not a mapping
MalformedRow ==
    [kind |-> "malformed", Topik |-> NoCell(<<>>), Tanggal |-> NoCell(EmptyText),
     Bentuk |-> ""]
Row(topik, tanggal, bentuk) ==
    [kind |-> "mapping", Topik |-> topik, Tanggal |-> tanggal, Bentuk |-> bentuk]

ClientNames == {"Acme", "Klinik Utama Gresik"}

\* the client at a roster position
ClientNameAt(number) == IF number % 2 = 1 THEN "Acme" ELSE "Klinik Utama Gresik"

\* default component_hashmap (utility_tasks.py) - None when unmapped
ComponentOf(name) == IF name = "Klinik Utama Gresik" THEN "10007" ELSE None

\* FIELD_ASSOCIATE, CONTENT_EDITOR and WORKERS of hashmap.py
FieldAssociateOf(name) == IF name = "Klinik Utama Gresik" THEN "Farah Qurrotu Aini" ELSE ""
ContentEditorOf(name) == IF name = "Klinik Utama Gresik" THEN "Alia Ayya" ELSE ""
WorkerId(worker) ==
    IF worker = "Farah Qurrotu Aini" THEN "712020:d882eb3f"
    ELSE IF worker = "Alia Ayya" THEN "712020:66fed40e"
    ELSE IF worker = "Noktah Inovasi Teknologi" THEN "712020:5f41db40"
    ELSE ""

\* ------------------------------------------------------------------------
\* convert_content_plan_row_to_jira_issue (utility_tasks.py)
\* ------------------------------------------------------------------------
\* row.get(column, "")
TopikOf(r) == IF r.Topik.present THEN r.Topik.text ELSE <<>>
TanggalOf(r) == IF r.Tanggal.present THEN r.Tanggal.text ELSE EmptyText

\* lines 449-452 and 503: placeholder when falsy, then str(summary).strip()
SummaryOf(r) ==
    LET summary == IF TopikOf(r) = <<>> THEN <<"Content Asset">> ELSE TopikOf(r)
    IN Strip(summary)

\* "if publication_date:" - a non-empty string
Truthy(t) == ~(t.kind = "empty" /\ ~t.pad)

StartOffsetDays == 7
DueOffsetDays == 1

\* the start date taken 6 days before the publication date
StartDateOf_Mutant(publication_date) ==
    IF Truthy(publication_date) /\ Strptime(publication_date, IsoFormat).ok
    THEN Strftime(MinusDays(Strptime(publication_date, IsoFormat), StartOffsetDays - 1))
    ELSE EmptyText

\* lines 463-471
StartDateOf(publication_date) ==
    IF Truthy(publication_date) /\ Strptime(publication_date, IsoFormat).ok
    THEN Strftime(MinusDays(Strptime(publication_date, IsoFormat), StartOffsetDays))
    ELSE EmptyText

\* the due date re-parsed with the day/month/year format
DueDateOf_Mutant(publication_date) ==
    IF Truthy(publication_date) /\ Strptime(publication_date, date_formats[4]).ok
    THEN Strftime(MinusDays(Strptime(publication_date, date_formats[4]), DueOffsetDays))
    ELSE EmptyText

\* lines 473-481
DueDateOf(publication_date) ==
    IF Truthy(publication_date) /\ Strptime(publication_date, IsoFormat).ok
    THEN Strftime(MinusDays(Strptime(publication_date, IsoFormat), DueOffsetDays))
    ELSE EmptyText

\* row.get on a value that is not a mapping raises; the handler re-raises
ConvertRaises(r) == r.kind # "mapping"

convert_content_plan_row_to_jira_issue(r, name) ==
    LET component_id == ComponentOf(name)
        publication_date == format_date_for_jira(TanggalOf(r))
        field_associate_id == WorkerId(FieldAssociateOf(name))
        content_editor_id == WorkerId(ContentEditorOf(name))
    IN [hasFields |-> TRUE,
        project |-> ProjectESKL,
        summary |-> SummaryStr(SummaryOf(r)),
        issuetype |-> IssuetypeAsset,
        components |-> IF component_id # None THEN <<component_id>> ELSE <<>>,
        customfield_10040 |-> publication_date,
        customfield_10042 |-> IF field_associate_id # "" THEN field_associate_id ELSE None,
        reporter |-> WorkerId("Noktah Inovasi Teknologi"),
        customfield_10043 |-> IF content_editor_id # "" THEN content_editor_id ELSE None,
        customfield_10015 |-> StartDateOf(publication_date),
        customfield_10039 |-> r.Bentuk,
        duedate |-> DueDateOf(publication_date),
        assignee |-> IF field_associate_id # "" THEN field_associate_id ELSE None,
        metadata |-> [client_name |-> name, component_id |-> component_id,
                      original_row |-> r]]

\* ------------------------------------------------------------------------
\* convert_content_plan_to_jira_assets_flow
\* ------------------------------------------------------------------------
\* rows a fetched content plan can hold
FlowRows ==
    { Row(Cell(<<"Launch post">>),
          Cell(DateText("-", [v |-> 2025, w |-> 4], [v |-> 9, w |-> 2],
                        [v |-> 10, w |-> 2], FALSE)),
          "Reel"),
      Row(Cell(<<" ">>), NoCell(EmptyText), "Feed"),
      Row(NoCell(<<>>), Cell(FreeText(FALSE)), "Reel"),
      MalformedRow }

\* one entry of read_content_plan_data_flow's "content_plans": fetched data,
\* no document, or a failed fetch
PlanShapes ==
    { [kind |-> "data", data |-> d] : d \in SeqsUpTo(FlowRows, MaxRows) }
    \cup { [kind |-> k, data |-> <<>>] : k \in {"no_document", "fetch_error"} }

\* the lists of at most k plans that hold at most `budget` rows together
RECURSIVE PlanShapeLists(_, _)
PlanShapeLists(k, budget) ==
    IF k = 0 THEN {<<>>}
    ELSE {<<>>} \cup
         UNION { { <<sh>> \o rest : rest \in PlanShapeLists(k - 1, budget - Len(sh.data)) } :
                   sh \in {x \in PlanShapes : Len(x.data) <= budget} }

PlanEntry(i, sh) ==
    IF sh.kind = "data"
    THEN [number |-> i, client_name |-> ClientNameAt(i), content_plan_id |-> FileId(i),
          data |-> sh.data]
    ELSE IF sh.kind = "no_document"
    THEN [number |-> i, client_name |-> ClientNameAt(i), content_plan_id |-> None,
          error |-> "No content plan ID available"]
    ELSE [number |-> i, client_name |-> ClientNameAt(i), content_plan_id |-> FileId(i),
          error |-> "exception"]

\* the inner loop with rows that raise dropped also when they are blank
ConvertRows_Mutant(rows, name) ==
    LET kept == {k \in 1..Len(rows) :
                    ~ConvertRaises(rows[k]) /\ SummaryOf(rows[k]) # <<>>}
        Nth(j) == CHOOSE k \in kept : Cardinality({q \in kept : q < k}) = j - 1
    IN [j \in 1..Cardinality(kept) |->
           convert_content_plan_row_to_jira_issue(rows[Nth(j)], name)]

\* the inner loop of lines 691-702: a row that raises is logged and dropped
RECURSIVE ConvertRows(_, _)
ConvertRows(rows, name) ==
    IF rows = <<>> THEN <<>>
    ELSE (IF ConvertRaises(Head(rows)) THEN <<>>
          ELSE <<convert_content_plan_row_to_jira_issue(Head(rows), name)>>)
         \o ConvertRows(Tail(rows), name)

\* the outer loop of lines 683-711
RECURSIVE ConvertPlans(_)
ConvertPlans(plans) ==
    IF plans = <<>> THEN <<>>
    ELSE LET client_data == Head(plans) IN
         IF "error" \in DOMAIN client_data \/ "data" \notin DOMAIN client_data
         THEN ConvertPlans(Tail(plans))
         ELSE LET client_assets == ConvertRows(client_data.data, client_data.client_name)
              IN (IF client_assets # <<>>
                  THEN <<[client_name |-> client_data.client_name,
                          content_plan_id |-> client_data.content_plan_id,
                          assets |-> client_assets,
                          asset_count |-> Len(client_assets)]>>
                  ELSE <<>>)
                 \o ConvertPlans(Tail(plans))

RECURSIVE SumAssetCounts(_)
SumAssetCounts(assets) ==
    IF assets = <<>> THEN 0 ELSE Head(assets).asset_count + SumAssetCounts(Tail(assets))

CountWithData(plans) == Cardinality({i \in 1..Len(plans) : "data" \in DOMAIN plans[i]})

\* a client name as re.sub reads it: runs of word characters, blanks, hyphens
\* and punctuation marks
NameTokens(name) ==
    IF name = "Acme" THEN <<"Acme">>
    ELSE IF name = "Acme." THEN <<"Acme", ".">>
    ELSE IF name = "Klinik Utama Gresik" THEN <<"Klinik", " ", "Utama", " ", "Gresik">>
    ELSE IF name = "Klinik Utama-Gresik" THEN <<"Klinik", " ", "Utama", "-", "Gresik">>
    ELSE <<name>>

PunctuationMarks == {".", ",", "&", "(", ")", "'"}

\* re.sub(r'[^\w\s-]', '', client_name)
RECURSIVE DropPunctuation(_)
DropPunctuation(s) ==
    IF s = <<>> THEN <<>>
    ELSE (IF Head(s) \in PunctuationMarks THEN <<>> ELSE <<Head(s)>>)
         \o DropPunctuation(Tail(s))

\* re.sub(r'[-\s]+', '_', s): every run of hyphens and blanks becomes one "_"
RECURSIVE JoinRuns(_, _)
JoinRuns(s, in_run) ==
    IF s = <<>> THEN <<>>
    ELSE IF Head(s) \in {"-", " "}
    THEN (IF in_run THEN <<>> ELSE <<"_">>) \o JoinRuns(Tail(s), TRUE)
    ELSE <<Head(s)>> \o JoinRuns(Tail(s), FALSE)

\* the name with its punctuation kept, so that no two names share a file
SafeClientName_Mutant(name) == NameTokens(name)

\* safe_client_name (lines 726-727)
SafeClientName(name) == JoinRuns(Strip(DropPunctuation(NameTokens(name))), FALSE)

\* os.path.join(run_output_dir, f"jira_issues_{safe_client_name}.json")
ClientFilePath(name) == <<"jira_issues_">> \o SafeClientName(name) \o <<".json">>

CombinedFilePath == <<"content_plan_jira_assets_combined.json">>

\* client_output_data (lines 730-740); json.dump writes and json.load reads
\* back strings, null and lists as they are
ClientOutputData(client_data) ==
    [metadata |-> [client_name |-> client_data.client_name,
                   content_plan_id |-> client_data.content_plan_id,
                   total_assets |-> client_data.asset_count],
     issue_updates |-> client_data.assets]

\* client_files (lines 747-751)
ClientFilesOf(jira_assets) ==
    [k \in 1..Len(jira_assets) |->
        [client_name |-> jira_assets[k].client_name,
         file_path |-> ClientFilePath(jira_assets[k].client_name),
         asset_count |-> jira_assets[k].asset_count]]

\* the save_to_json calls of the flow in order: one per client, then the
\* combined file
FileWritesOf(jira_assets) ==
    [k \in 1..Len(jira_assets) |->
        [path |-> ClientFilePath(jira_assets[k].client_name),
         content |-> ClientOutputData(jira_assets[k])]]
    \o <<[path |-> CombinedFilePath, content |-> [jira_assets |-> jira_assets]]>>

\* mode: "fetch_error" = read_content_plan_data_flow returned an error,
\* "save_raises" = writing a JSON file raised, "ok" otherwise
ConvertModes == {"ok", "fetch_error", "save_raises"}

convert_content_plan_to_jira_assets_flow(mode, plans) ==
    LET jira_assets == ConvertPlans(plans) IN
    IF mode = "fetch_error"
    THEN [jira_assets |-> <<>>, error |-> "Failed to get content plan data"]
    ELSE IF mode = "save_raises"
    THEN [jira_assets |-> jira_assets, error |-> "exception"]
    ELSE [jira_assets |-> jira_assets,
          summary |-> [total_clients_processed |-> CountWithData(plans),
                       total_assets_created |-> SumAssetCounts(jira_assets),
                       client_files_created |-> Len(ClientFilesOf(jira_assets))],
          output_files |-> [client_files |-> ClientFilesOf(jira_assets),
                            combined_file |-> CombinedFilePath]]

\* ------------------------------------------------------------------------
\* read_content_plan_data_flow
\* ------------------------------------------------------------------------
\* min_delay_seconds / max_delay_seconds as main passes them
MinDelaySeconds == 2
MaxDelaySeconds == 4

\* random.uniform(min_delay_seconds, max_delay_seconds), in whole seconds
Delays == MinDelaySeconds..MaxDelaySeconds

\* an entry of the locator's output: a matched document, no match, or a
\* search that raised (lines 222-252)
PlanKinds == {"doc", "none", "search_error"}

PlanListEntry(number, kind) ==
    IF kind = "doc"
    THEN [number |-> number, client_name |-> ClientNameAt(number),
          content_plan_id |-> FileId(number)]
    ELSE IF kind = "none"
    THEN [number |-> number, client_name |-> ClientNameAt(number),
          content_plan_id |-> None]
    ELSE [number |-> number, client_name |-> ClientNameAt(number),
          content_plan_id |-> None, error |-> "exception"]

\* lists the locator can hand over; numbers are roster positions, so they
\* start above 1 when the first roster rows were skipped
PlanLists ==
    { [i \in 1..Len(ks) |-> PlanListEntry(i + off, ks[i])] :
        off \in {0, 1}, ks \in SeqsUpTo(PlanKinds, MaxClients) }

\* what google_read_sheet_data does for one document: records (none for an
\* empty sheet) or a raise
FetchResponses ==
    { [raises |-> FALSE, data |-> <<>>],
      [raises |-> FALSE, data |-> <<Row(Cell(<<"Launch post">>), NoCell(EmptyText), "Reel")>>],
      [raises |-> TRUE, data |-> <<>>] }

\* the entry handed on as the locator wrote it
NoDocument_Mutant(content_plan) == content_plan

\* lines 445-452
NoDocument(content_plan) ==
    [number |-> content_plan.number, client_name |-> content_plan.client_name,
     content_plan_id |-> None, error |-> "No content plan ID available"]

\* a raise taken for an empty sheet
FetchOne_Mutant(content_plan, r) ==
    [number |-> content_plan.number, client_name |-> content_plan.client_name,
     content_plan_id |-> content_plan.content_plan_id, data |-> r.data]

\* lines 454-483
FetchOne(content_plan, r) ==
    IF r.raises
    THEN [number |-> content_plan.number, client_name |-> content_plan.client_name,
          content_plan_id |-> content_plan.content_plan_id, error |-> "exception"]
    ELSE [number |-> content_plan.number, client_name |-> content_plan.client_name,
          content_plan_id |-> content_plan.content_plan_id, data |-> r.data]

\* index < len(content_plan_list) - 1, index counted from 0 (line 486)
SleepsAfter(index, list) == index < Len(list)

\* the loop of lines 441-488, index counted from 1; log holds the sheet reads
\* and the sleeps in the order they happen
RECURSIVE FetchPlans(_, _, _, _)
FetchPlans(list, index, resp, delays) ==
    IF index > Len(list) THEN [plans |-> <<>>, log |-> <<>>]
    ELSE LET content_plan == list[index]
             rest == FetchPlans(list, index + 1, resp, delays)
         IN IF ~HasPlan(content_plan)
            THEN [plans |-> <<NoDocument(content_plan)>> \o rest.plans,
                  log |-> rest.log]
            ELSE [plans |-> <<FetchOne(content_plan, resp[index])>> \o rest.plans,
                  log |-> <<[op |-> "read", number |-> content_plan.number,
                             spreadsheet_id |-> content_plan.content_plan_id,
                             raised |-> resp[index].raises]>>
                          \o (IF SleepsAfter(index, list)
                              THEN <<[op |-> "sleep", seconds |-> delays[index]]>>
                              ELSE <<>>)
                          \o rest.log]

CountWithError(plans) == Cardinality({i \in 1..Len(plans) : "error" \in DOMAIN plans[i]})

\* how the search (or the filter) called at entry ends
FetchModes == {"ok", "upstream_error"}

\* the flow; the record returned carries the reads and sleeps as `log`
read_content_plan_data_flow(mode, list, resp, delays) ==
    IF mode = "upstream_error"
    THEN [content_plans |-> <<>>, log |-> <<>>,
          error |-> "Failed to get content plan data"]
    ELSE LET loop == FetchPlans(list, 1, resp, delays)
         IN [content_plans |-> loop.plans,
             log |-> loop.log,
             summary |-> [total_content_plans |-> Len(list),
                          successfully_processed |-> CountWithData(loop.plans),
                          failed_processing |-> CountWithError(loop.plans)]]

\* ------------------------------------------------------------------------
\* The submission flows
\* ------------------------------------------------------------------------
\* one Jira-formatted list a client file can hold: one valid record, two
\* valid records, a valid record followed by one whose summary is null, one
\* record without fields, no record
JiraFileLists ==
    { <<Issue(TRUE, ProjectESKL, IssuetypeAsset, SummaryStr(<<"Launch post">>))>>,
      <<Issue(TRUE, ProjectESKL, IssuetypeAsset, SummaryStr(<<"Launch post">>)),
        Issue(TRUE, ProjectESKL, IssuetypeAsset, SummaryStr(<<" ", "Second post">>))>>,
      <<Issue(TRUE, ProjectESKL, IssuetypeAsset, SummaryStr(<<"Launch post">>)),
        Issue(TRUE, ProjectESKL, IssuetypeAsset, SummaryNull)>>,
      <<Issue(FALSE, RefAbsent, RefAbsent, SummaryAbsent)>>,
      <<>> }

\* a file on disk: "missing" makes read_jira_formatted_json return status
\* error, "not_a_list" holds "issue_updates": null, so that
\* validate_bulk_issue_data raises at len(issue_updates) before its try
ClientFileShapes ==
    { [file |-> "missing", issue_updates |-> <<>>],
      [file |-> "not_a_list", issue_updates |-> <<>>] }
    \cup { [file |-> "ok", issue_updates |-> l] : l \in JiraFileLists }

\* client names are distinct: the transformer writes one file per client
FlowClientName(i) ==
    IF i = 1 THEN "Acme"
    ELSE IF i = 2 THEN "Klinik Utama Gresik"
    ELSE "Client " \o ToString(i)

\* an entry of client_files as the transformer writes it (lines 747-751)
ClientFile(i, sh) ==
    [client_name |-> FlowClientName(i), file_path |-> FileId(i),
     file |-> sh.file, issue_updates |-> sh.issue_updates]

\* answers of the tracker to a flow's bulk request
FlowBulkResponses ==
    { [kind |-> "transport", code |-> 0, issues |-> <<>>, errors |-> <<>>],
      [kind |-> "http", code |-> 400, issues |-> <<>>, errors |-> <<>>],
      [kind |-> "http", code |-> 201, issues |-> <<"ESKL-1">>, errors |-> <<>>],
      [kind |-> "http", code |-> 201, issues |-> <<"ESKL-1">>,
       errors |-> <<"summary is required">>] }

\* get_server_info: "success" or not
ConnectionTests == {"success", "error"}

\* a call that reaches Jira, with what came back
ServerInfoCall(conn) ==
    [op |-> "server_info", client_name |-> "", payload |-> <<>>, status |-> conn,
     issues |-> <<>>]

BulkCalls(name, ius, n, resp) ==
    LET reqs == Requests(ius, n, resp)
    IN [k \in 1..Len(reqs) |->
           [op |-> "bulk", client_name |-> name, payload |-> reqs[k],
            status |-> IF resp.kind = "http" /\ resp.code = 201 THEN "success" ELSE "error",
            issues |-> IF resp.kind = "http" /\ resp.code = 201 THEN resp.issues ELSE <<>>]]

\* the mode test dropped: the request is sent in a dry run too
SkipsCreation_Mutant(vo) == FALSE

\* "if validate_only:" (lines 884 and 1045)
SkipsCreation(vo) == vo

\* the handler of a client that forgets what was created before it
CreatedSoFar_Mutant(created, failed) == IF failed THEN 0 ELSE created

\* total_issues_created across iterations: a failing client leaves it alone
CreatedSoFar(created, failed) == created

\* one iteration of the loop of lines 848-923; result is the entry appended
\* to client_results, calls the tracker calls made, created / processed what
\* the iteration adds to the two counters
ProcessClient(client_info, vo, n, resp) ==
    LET name == client_info.client_name
        validation == validate_bulk_issue_data(client_info.issue_updates, n)
        bulk == create_issues_bulk(validation.valid_issues, n, resp)
        failure(text) == [result |-> [client_name |-> name, status |-> "error",
                                      error |-> text],
                          calls |-> <<>>, created |-> 0, processed |-> 0]
    IN IF client_info.file = "missing" THEN failure("Failed to read JSON")
       ELSE IF client_info.file = "not_a_list" THEN failure("exception")
       ELSE IF validation.status # "success" THEN failure("Validation failed")
       ELSE IF SkipsCreation(vo)
       THEN [result |-> [client_name |-> name, file_path |-> client_info.file_path,
                         validation |-> validation, status |-> "validated"],
             calls |-> <<>>, created |-> 0, processed |-> 1]
       ELSE IF validation.final_count > 0
       THEN [result |->
                 IF bulk.status = "success"
                 THEN [client_name |-> name, file_path |-> client_info.file_path,
                       validation |-> validation, bulk_creation |-> bulk,
                       status |-> "success", issues_created |-> bulk.total_created]
                 ELSE [client_name |-> name, file_path |-> client_info.file_path,
                       validation |-> validation, bulk_creation |-> bulk,
                       status |-> "error", error |-> bulk.error],
             calls |-> BulkCalls(name, validation.valid_issues, n, resp),
             created |-> IF bulk.status = "success" THEN bulk.total_created ELSE 0,
             processed |-> 1]
       ELSE [result |-> [client_name |-> name, file_path |-> client_info.file_path,
                         validation |-> validation, status |-> "no_valid_issues",
                         issues_created |-> 0],
             calls |-> <<>>, created |-> 0, processed |-> 1]

\* the loop, index counted from 1, with the counters carried along
RECURSIVE ProcessClients(_, _, _, _, _, _)
ProcessClients(files, index, vo, n, resp, acc) ==
    IF index > Len(files) THEN acc
    ELSE LET one == ProcessClient(files[index], vo, n, resp[index])
         IN ProcessClients(files, index + 1, vo, n, resp,
                [results |-> Append(acc.results, one.result),
                 calls |-> acc.calls \o one.calls,
                 created |-> CreatedSoFar(acc.created, one.result.status = "error")
                             + one.created,
                 processed |-> acc.processed + one.processed])

\* the clients whose iteration reaches create_issues_bulk
Submitting(files, vo, n) ==
    {i \in 1..Len(files) :
        /\ ~SkipsCreation(vo)
        /\ files[i].file = "ok"
        /\ validate_bulk_issue_data(files[i].issue_updates, n).status = "success"
        /\ validate_bulk_issue_data(files[i].issue_updates, n).final_count > 0}

CountStatus(results, status) ==
    Cardinality({i \in 1..Len(results) : results[i].status = status})

\* the record returned carries the tracker calls as `calls`
bulk_create_jira_issues_per_client_flow(files, n, vo, conn, resp) ==
    IF ~vo /\ conn # "success"
    THEN [client_results |-> <<>>, calls |-> <<ServerInfoCall(conn)>>,
          error |-> "Jira connection failed"]
    ELSE LET loop == ProcessClients(files, 1, vo, n, resp,
                         [results |-> <<>>, calls |-> <<>>, created |-> 0,
                          processed |-> 0])
         IN [client_results |-> loop.results,
             calls |-> (IF vo THEN <<>> ELSE <<ServerInfoCall(conn)>>) \o loop.calls,
             summary |-> [total_clients |-> Len(files),
                          clients_processed |-> loop.processed,
                          total_issues_created |-> loop.created,
                          successful_clients |-> CountStatus(loop.results, "success"),
                          failed_clients |-> CountStatus(loop.results, "error"),
                          validate_only |-> vo]]

\* where json_file_path leads: no data directory to take the latest from, a
\* path that does not exist, or a file
PathStates == {"no_dirs", "not_found", "found"}

bulk_create_jira_issues_flow(path, file, n, vo, conn, resp) ==
    LET validation == validate_bulk_issue_data(file.issue_updates, n)
        bulk == create_issues_bulk(validation.valid_issues, n, resp)
        test == IF vo THEN <<>> ELSE <<ServerInfoCall(conn)>>
        failure(text, calls) == [validate_only |-> vo, calls |-> calls, error |-> text]
    IN IF path = "no_dirs" THEN failure("No data directories found", <<>>)
       ELSE IF path = "not_found" THEN failure("JSON file not found", <<>>)
       ELSE IF ~vo /\ conn # "success" THEN failure("Jira connection failed", test)
       ELSE IF file.file = "missing" THEN failure("Failed to read JSON data", test)
       ELSE IF file.file = "not_a_list" THEN failure("exception", test)
       ELSE IF validation.status # "success" THEN failure("Validation failed", test)
       ELSE IF SkipsCreation(vo)
       THEN [validate_only |-> vo, calls |-> test, validation |-> validation,
             summary |-> [mode |-> "validation_only",
                          total_issues_in_file |-> Len(file.issue_updates),
                          valid_issues |-> validation.final_count,
                          invalid_issues |-> validation.invalid_count,
                          warnings |-> validation.warnings]]
       ELSE IF validation.final_count = 0
       THEN [validate_only |-> vo, calls |-> test, validation |-> validation,
             error |-> "No valid issues found for creation"]
       ELSE [validate_only |-> vo,
             calls |-> test \o BulkCalls(file.client_name, validation.valid_issues, n, resp),
             validation |-> validation,
             bulk_creation |-> bulk,
             summary |->
                 IF bulk.status = "success"
                 THEN [mode |-> "creation", status |-> "success",
                       total_issues_requested |-> validation.final_count,
                       total_issues_created |-> bulk.total_created,
                       total_errors |-> bulk.total_errors,
                       validation_warnings |-> validation.warnings]
                 ELSE [mode |-> "creation", status |-> "error", error |-> bulk.error,
                       total_issues_requested |-> validation.final_count,
                       validation_warnings |-> validation.warnings]]

\* ------------------------------------------------------------------------
\* The stages composed over one world
\* ------------------------------------------------------------------------
\* filter_content_plan_results_flow without filters, as main and the fetch
\* stage call it: every item of the search output is included
filter_content_plan_results_flow(all_results) ==
    IF "error" \in DOMAIN all_results
    THEN [filtered_output |-> <<>>, error |-> "Failed to get content plan data"]
    ELSE [filtered_output |-> all_results.output,
          original_count |-> Len(all_results.output),
          filtered_count |-> Len(all_results.output),
          summary |-> [original_total |-> Len(all_results.output),
                       filtered_total |-> Len(all_results.output),
                       clients_with_content_plans |-> CountWithPlan(all_results.output),
                       clients_without_content_plans |->
                           Len(all_results.output) - CountWithPlan(all_results.output),
                       search_month |-> all_results.summary.search_month]]

\* read_jira_formatted_json on a path: status error when the file is not
\* there, else the "issue_updates" of the file
read_jira_formatted_json(files_on_disk, path) ==
    IF path \notin DOMAIN files_on_disk
    THEN [status |-> "error", issue_updates |-> <<>>]
    ELSE [status |-> "success", issue_updates |-> files_on_disk[path].issue_updates]

\* an entry of client_files with what the per-client flow reads at its path
LoadedClientFile(files_on_disk, client_info) ==
    LET json_data == read_jira_formatted_json(files_on_disk, client_info.file_path)
    IN [client_name |-> client_info.client_name,
        file_path |-> client_info.file_path,
        file |-> IF json_data.status = "success" THEN "ok" ELSE "missing",
        issue_updates |-> json_data.issue_updates]

\* save_to_json: open(output_path, 'w') replaces what the path held
RECURSIVE SaveAll(_, _)
SaveAll(files_on_disk, writes) ==
    IF writes = <<>> THEN files_on_disk
    ELSE SaveAll((Head(writes).path :> Head(writes).content) @@ files_on_disk,
                 Tail(writes))

\* max_issues as main passes it to steps 7 and 8
MainMaxIssues == 45

\* the roster as google_read_sheet_data returns it (no max_rows)
RosterOf(w) == google_read_sheet_data(w.values, 0)

\* the read of the roster sheet, issued once the connection test and the
\* sheet lookup have passed
RosterIo(w) ==
    IF w.google = "ok" THEN <<[op |-> "roster_read", target |-> <<"Clients">>]>> ELSE <<>>

\* the element of a one-element set, used to name a value computed once:
\* The({ e(x) : x \in {v} }) is e(v)
The(S) == CHOOSE x \in S : TRUE

\* each stage below gives the dict the flow returns (result), the reads,
\* queries and tracker calls it issues (io) and the files it saves (writes)
RosterStage(w) ==
    [result |-> read_content_plan_flow(w.google, RosterOf(w)),
     io |-> RosterIo(w), writes |-> <<>>]

SearchStage(w) ==
    The({ [result |-> result,
           io |-> RosterIo(w) \o [k \in 1..Len(result.queries) |->
                                     [op |-> "drive_query",
                                      target |-> <<result.queries[k]>>]],
           writes |-> <<>>] :
          result \in { search_content_plan_files_flow(w.google, roster, SearchMonth, w.drive) :
                         roster \in {RosterOf(w)} } })

FilterStage(w) ==
    The({ [result |-> filter_content_plan_results_flow(s.result),
           io |-> s.io, writes |-> <<>>] :
          s \in {SearchStage(w)} })

\* the reads of the loop (the sleeps between them left out of io)
DocumentReads(log) ==
    LET reads == SelectSeq(log, LAMBDA e : e.op = "read")
    IN [k \in 1..Len(reads) |->
           [op |-> "document_read", target |-> <<reads[k].spreadsheet_id>>]]

\* the loop of the fetch stage on the output of the search it has called;
\* the delay drawn between two reads is the shortest one
FetchFrom(w, s) ==
    IF "error" \in DOMAIN s.result
    THEN read_content_plan_data_flow("upstream_error", <<>>, <<>>, <<>>)
    ELSE The({ read_content_plan_data_flow("ok", s.result.output, resp, delays) :
               resp \in {[i \in 1..Len(s.result.output) |->
                             w.sheets[s.result.output[i].number]]},
               delays \in {[i \in 1..Len(s.result.output) |-> MinDelaySeconds]} })

\* read_content_plan_data_flow without filters: the search stage is run at
\* entry, then one read per located document
FetchStage(w) ==
    The({ The({ [result |-> result, io |-> s.io \o DocumentReads(result.log),
                 writes |-> <<>>] :
                result \in {FetchFrom(w, s)} }) :
          s \in {SearchStage(w)} })

\* step 5: the formatter reads the roster sheet itself
FormatStage(w, limit) ==
    [result |-> format_data_processor_flow(w.google, w.values, limit),
     io |-> RosterIo(w), writes |-> <<>>]

\* the transform of what the fetch it has called returned
ConvertFrom(f) ==
    The({ convert_content_plan_to_jira_assets_flow(
              IF "error" \in DOMAIN f.result THEN "fetch_error" ELSE "ok", plans) :
          plans \in {f.result.content_plans} })

\* the files the transform saves: none when it returns an error
WritesOf(result) ==
    IF "error" \in DOMAIN result THEN <<>> ELSE FileWritesOf(result.jira_assets)

\* convert_content_plan_to_jira_assets_flow: the fetch stage is run at entry
ConvertStage(w) ==
    The({ The({ The({ [result |-> result,
                       io |-> f.io \o [k \in 1..Len(writes) |->
                                          [op |-> "file_write",
                                           target |-> writes[k].path]],
                       writes |-> writes] :
                      writes \in {WritesOf(result)} }) :
                result \in {ConvertFrom(f)} }) :
          f \in {FetchStage(w)} })

\* the loop reads one file per entry also when the connection test failed
FileReadsOf_Mutant(files, vo, conn) ==
    [k \in 1..Len(files) |-> [op |-> "file_read", target |-> files[k].file_path]]

\* read_jira_formatted_json is the first call of every iteration of the
\* loop, and the loop is not entered when the connection test fails
FileReadsOf(files, vo, conn) ==
    IF ~vo /\ conn # "success" THEN <<>>
    ELSE [k \in 1..Len(files) |-> [op |-> "file_read", target |-> files[k].file_path]]

\* bulk_create_jira_issues_per_client_flow on the entries main hands over
SubmitStage(w, files_on_disk, files, vo) ==
    The({ [result |-> result,
           io |-> FileReadsOf(files, vo, w.jira)
                  \o [k \in 1..Len(result.calls) |->
                         [op |-> result.calls[k].op,
                          target |-> <<result.calls[k].client_name>>]],
           writes |-> <<>>] :
          result \in { bulk_create_jira_issues_per_client_flow(
                           loaded, MainMaxIssues, vo, w.jira, resp) :
                         loaded \in {[i \in 1..Len(files) |->
                                         LoadedClientFile(files_on_disk, files[i])]},
                         resp \in {[i \in 1..Len(files) |-> w.tracker]} } })

\* ------------------------------------------------------------------------
\* main(): the stages as main sees them
\* ------------------------------------------------------------------------
\* How a stage called by main can end.  main reads nothing of a result but
\* the presence of the "error" key (and "output_files" of step 6), so a
\* stage is its outcome: "ok" or the failure that sets "error".
\*   step 1 is read_content_plan_flow itself; steps 2-4 and 6 start with the
\*   roster read and the search and fail when those fail or raise; step 5
\*   (format_data_processor_flow) fails like step 1; step 7 runs with
\*   validate_only = True: no connection test, per-client failures stay in
\*   client_results, and client_files comes from step 6 with all its keys, so
\*   its handler is never entered; step 8 tests the Jira connection first.
StageOutcomes(step) ==
    IF step \in {2, 3, 4, 6} THEN {"ok", "upstream_error", "exception"}
    ELSE IF step = 5 THEN {"ok", "conn_failed", "sheet_missing", "no_data", "exception"}
    ELSE IF step = 7 THEN {"ok"}
    ELSE {"ok", "conn_failed", "exception"}

StageResult(step, outcome) ==
    IF outcome = "ok" THEN [step |-> step]
    ELSE [step |-> step, error |-> outcome]

HasError(r) == "error" \in DOMAIN r

StepFile(step) ==
    <<"step1_client_data.json", "step2_content_plan_search.json",
      "step3_filtered_results.json", "step4_content_plan_data.json",
      "step5_formatted_data.json", "step6_jira_assets.json",
      "step7_validation_per_client.json",
      "step8_bulk_creation_per_client.json">>[step]

NotRun == [step |-> 0]

\* ------------------------------------------------------------------------
\* Inputs of the transformer
\* ------------------------------------------------------------------------
DateGroups ==
    { [v |-> 1, w |-> 1], [v |-> 1, w |-> 2], [v |-> 2, w |-> 2], [v |-> 3, w |-> 2],
      [v |-> 7, w |-> 2], [v |-> 9, w |-> 2], [v |-> 10, w |-> 2], [v |-> 13, w |-> 2],
      [v |-> 25, w |-> 2], [v |-> 29, w |-> 2], [v |-> 31, w |-> 2],
      [v |-> 2024, w |-> 4], [v |-> 2025, w |-> 4] }

TanggalCells ==
    { NoCell(EmptyText), Cell(EmptyText), Cell(FreeText(FALSE)), Cell(FreeText(TRUE)),
      Cell([EmptyText EXCEPT !.pad = TRUE]) }
    \cup { Cell(DateText(sep, a, b, c, FALSE)) :
             sep \in {"-", "/"}, a \in DateGroups, b \in DateGroups, c \in DateGroups }
    \cup { Cell(DateText("-", [v |-> 2025, w |-> 4], b, [v |-> 10, w |-> 2], TRUE)) :
             b \in DateGroups }

TopikCells ==
    { NoCell(<<>>), Cell(<<>>), Cell(<<" ">>), Cell(<<"Launch post">>),
      Cell(<<" ", "Launch post", " ">>) }

BentukValues == {"Reel", "Feed"}

Rows ==
    { Row(t, d, b) : t \in TopikCells, d \in TanggalCells, b \in BentukValues }
    \cup {MalformedRow}

\* ------------------------------------------------------------------------
\* Values of the variables a scenario does not use
\* ------------------------------------------------------------------------
NoValidation == [status |-> "none"]
NoBulk == [status |-> "none"]
NoResponse == [kind |-> "none", code |-> 0, issues |-> <<>>, errors |-> <<>>]
NoSearch == [status |-> "none"]

NoFormat == [status |-> "none"]

IdleSheet ==
    /\ values = <<>>
    /\ max_rows = 0
    /\ format_result = NoFormat

NoLabel == [raised |-> FALSE, month_name |-> "", year |-> 0]

IdleDate ==
    /\ date_input = NoDateInput
    /\ now = [y |-> 0, m |-> 0, d |-> 0]
    /\ offset_months = 0
    /\ language = ""
    /\ date_result = NoLabel

NoWorld == [google |-> "none"]

IdleRun ==
    /\ world = NoWorld
    /\ disk = <<>>
    /\ io_log = <<>>
    /\ returned = <<>>

IdleSubmit ==
    /\ issue_updates = <<>>
    /\ max_issues = 0
    /\ validation_result = NoValidation
    /\ bulk_result = NoBulk
    /\ posted = <<>>
    /\ bulk_response = NoResponse

IdleSearch ==
    /\ clients = <<>>
    /\ search_result = NoSearch
    /\ drive_queries = <<>>
    /\ drive_raised = {}

NoFetch == [status |-> "none"]

IdleFetch ==
    /\ plan_list = <<>>
    /\ fetch_result = NoFetch
    /\ fetch_log = <<>>

NoFlow == [status |-> "none"]

IdleFlow ==
    /\ client_files = <<>>
    /\ validate_only = FALSE
    /\ flow_max_issues = 0
    /\ flow_result = NoFlow
    /\ tracker_calls = <<>>

IdleMain ==
    /\ invoked = <<>>
    /\ step_result = [k \in 1..8 |-> NotRun]
    /\ snapshots = <<>>

IdleConvert ==
    /\ content_plans = <<>>
    /\ convert_result = [status |-> "none"]

NoIssue == [hasFields |-> FALSE]

IdleRow ==
    /\ row = MalformedRow
    /\ client_name = ""
    /\ jira_issue = NoIssue

\* ------------------------------------------------------------------------
\* Validate-and-submit of one record set, as both submission flows run it
\* (bulk_create_jira_issues_per_client_flow lines 863-909)
\* ------------------------------------------------------------------------
InitSubmit ==
    /\ pc = "collected"
    /\ IdleSearch /\ IdleRow /\ IdleConvert /\ IdleMain /\ IdleFetch /\ IdleFlow /\ IdleDate /\ IdleSheet /\ IdleRun
    /\ issue_updates \in SeqsUpTo(IssueUpdates, MaxIssueList)
    /\ max_issues \in 0..MaxCap
    /\ validation_result = NoValidation
    /\ bulk_result = NoBulk
    /\ posted = <<>>
    /\ bulk_response = NoResponse

Validate ==
    /\ pc = "collected"
    /\ validation_result' = validate_bulk_issue_data(issue_updates, max_issues)
    /\ pc' = IF validation_result'.status = "success" THEN "validated" ELSE "reported"
    /\ UNCHANGED <<issue_updates, max_issues, bulk_result, posted, bulk_response,
                   nonSubmitVars>>

\* validation_result["final_count"] > 0: one call of create_issues_bulk
Submit ==
    /\ pc = "validated"
    /\ validation_result.final_count > 0
    /\ \E resp \in BulkResponses :
        /\ bulk_result' = create_issues_bulk(validation_result.valid_issues, max_issues, resp)
        /\ posted' = posted \o Requests(validation_result.valid_issues, max_issues, resp)
        /\ bulk_response' = resp
    /\ pc' = "reported"
    /\ UNCHANGED <<issue_updates, max_issues, validation_result, nonSubmitVars>>

\* validation_result["final_count"] == 0: status "no_valid_issues"
SkipSubmit ==
    /\ pc = "validated"
    /\ validation_result.final_count = 0
    /\ pc' = "reported"
    /\ UNCHANGED <<submitVars, nonSubmitVars>>

NextSubmit == Validate \/ Submit \/ SkipSubmit

SpecSubmit == InitSubmit /\ [][NextSubmit]_vars

\* ------------------------------------------------------------------------
\* The document locator on one roster
\* ------------------------------------------------------------------------
InitSearch ==
    /\ pc = "roster"
    /\ clients \in SeqsUpTo(ClientRows, MaxClients)
    /\ search_result = NoSearch
    /\ drive_queries = <<>>
    /\ drive_raised = {}
    /\ IdleSubmit /\ IdleRow /\ IdleConvert /\ IdleMain /\ IdleFetch /\ IdleFlow /\ IdleDate /\ IdleSheet /\ IdleRun

SearchFlow ==
    /\ pc = "roster"
    /\ \E mode \in ReadModes :
       \E resp \in DriveAnswers(SearchableIndexes(clients), MaxFiles) :
           LET r == search_content_plan_files_flow(mode, clients, SearchMonth, resp)
           IN /\ search_result' = [k \in DOMAIN r \ {"queries"} |-> r[k]]
              /\ drive_queries' = r.queries
              /\ drive_raised' = IF "error" \in DOMAIN r THEN {}
                                 ELSE {i \in DOMAIN resp : resp[i].raises}
    /\ pc' = "searched"
    /\ UNCHANGED <<clients, nonSearchVars>>

NextSearch == SearchFlow

SpecSearch == InitSearch /\ [][NextSearch]_vars

\* ------------------------------------------------------------------------
\* One row through the transformer
\* ------------------------------------------------------------------------
InitRow ==
    /\ pc = "row"
    /\ row \in Rows
    /\ client_name \in ClientNames
    /\ jira_issue = NoIssue
    /\ IdleSubmit /\ IdleSearch /\ IdleConvert /\ IdleMain /\ IdleFetch /\ IdleFlow /\ IdleDate /\ IdleSheet /\ IdleRun

ConvertRow ==
    /\ pc = "row"
    /\ ~ConvertRaises(row)
    /\ jira_issue' = convert_content_plan_row_to_jira_issue(row, client_name)
    /\ pc' = "converted"
    /\ UNCHANGED <<row, client_name, nonRowVars>>

ConvertRowRaises ==
    /\ pc = "row"
    /\ ConvertRaises(row)
    /\ pc' = "raised"
    /\ UNCHANGED <<rowVars, nonRowVars>>

NextRow == ConvertRow \/ ConvertRowRaises

SpecRow == InitRow /\ [][NextRow]_vars

\* ------------------------------------------------------------------------
\* The transform stage on one set of fetched content plans
\* ------------------------------------------------------------------------
InitConvert ==
    /\ pc = "fetched"
    /\ \E sh \in PlanShapeLists(MaxPlans, MaxRows) :
           content_plans = [i \in 1..Len(sh) |-> PlanEntry(i, sh[i])]
    /\ convert_result = [status |-> "none"]
    /\ IdleSubmit /\ IdleSearch /\ IdleRow /\ IdleMain /\ IdleFetch /\ IdleFlow /\ IdleDate /\ IdleSheet /\ IdleRun

ConvertFlow ==
    /\ pc = "fetched"
    /\ \E mode \in ConvertModes :
           convert_result' = convert_content_plan_to_jira_assets_flow(mode, content_plans)
    /\ pc' = "transformed"
    /\ UNCHANGED <<content_plans, nonConvertVars>>

NextConvert == ConvertFlow

SpecConvert == InitConvert /\ [][NextConvert]_vars

\* ------------------------------------------------------------------------
\* One pipeline run: main(), steps 1 to 8
\* ------------------------------------------------------------------------
InitMain ==
    /\ pc = "step1"
    /\ clients \in SeqsUpTo(ClientRows, MaxClients)
    /\ search_result = NoSearch
    /\ drive_queries = <<>>
    /\ drive_raised = {}
    /\ IdleMain
    /\ IdleSubmit /\ IdleRow /\ IdleConvert /\ IdleFetch /\ IdleFlow /\ IdleDate /\ IdleSheet /\ IdleRun

\* a step whose result main tests: save and go on, or return
CheckedStep(step, r, next) ==
    /\ invoked' = Append(invoked, step)
    /\ step_result' = [step_result EXCEPT ![step] = r]
    /\ snapshots' = IF HasError(r) THEN snapshots ELSE Append(snapshots, StepFile(step))
    /\ pc' = IF HasError(r) THEN "returned" ELSE next
    /\ UNCHANGED <<clients, nonMainVars>>

\* Step 1: read_content_plan_flow()
Step1 ==
    /\ pc = "step1"
    /\ \E mode \in ReadModes :
           CheckedStep(1, read_content_plan_flow(mode, clients), "step2")

\* Step 2: search_content_plan_files_flow(target_month = "September 2025")
Step2 ==
    /\ pc = "step2"
    /\ \E o \in StageOutcomes(2) : CheckedStep(2, StageResult(2, o), "step3")

\* Step 3: filter_content_plan_results_flow
Step3 ==
    /\ pc = "step3"
    /\ \E o \in StageOutcomes(3) : CheckedStep(3, StageResult(3, o), "step4")

\* Step 4: read_content_plan_data_flow
Step4 ==
    /\ pc = "step4"
    /\ \E o \in StageOutcomes(4) : CheckedStep(4, StageResult(4, o), "step5")

\* Step 5: format_data_processor_flow; main does not look at step5_result,
\* the flow writes its own file when it succeeds
Step5 ==
    /\ pc = "step5"
    /\ \E o \in StageOutcomes(5) :
        /\ invoked' = Append(invoked, 5)
        /\ step_result' = [step_result EXCEPT ![5] = StageResult(5, o)]
        /\ snapshots' = IF o = "ok" THEN Append(snapshots, StepFile(5)) ELSE snapshots
    /\ pc' = "step6"
    /\ UNCHANGED <<clients, nonMainVars>>

\* Step 6: convert_content_plan_to_jira_assets_flow
Step6 ==
    /\ pc = "step6"
    /\ \E o \in StageOutcomes(6) : CheckedStep(6, StageResult(6, o), "step7")

\* Step 7: bulk_create_jira_issues_per_client_flow(validate_only = True);
\* step 8 follows whatever step7_result holds
Step7 ==
    /\ pc = "step7"
    /\ \E o \in StageOutcomes(7) :
        /\ invoked' = Append(invoked, 7)
        /\ step_result' = [step_result EXCEPT ![7] = StageResult(7, o)]
        /\ snapshots' = IF o = "ok" THEN Append(snapshots, StepFile(7)) ELSE snapshots
    /\ pc' = "step8"
    /\ UNCHANGED <<clients, nonMainVars>>

\* Step 8: bulk_create_jira_issues_per_client_flow(validate_only = False)
Step8 ==
    /\ pc = "step8"
    /\ \E o \in StageOutcomes(8) : CheckedStep(8, StageResult(8, o), "returned")

NextMain == Step1 \/ Step2 \/ Step3 \/ Step4 \/ Step5 \/ Step6 \/ Step7 \/ Step8

SpecMain == InitMain /\ [][NextMain]_vars

\* ------------------------------------------------------------------------
\* The fetcher on one list of located documents
\* ------------------------------------------------------------------------
InitFetch ==
    /\ pc = "located"
    /\ plan_list \in PlanLists
    /\ fetch_result = NoFetch
    /\ fetch_log = <<>>
    /\ IdleSubmit /\ IdleSearch /\ IdleRow /\ IdleConvert /\ IdleMain /\ IdleFlow /\ IdleDate /\ IdleSheet /\ IdleRun

FetchFlow ==
    /\ pc = "located"
    /\ \E mode \in FetchModes :
       \E resp \in [{i \in 1..Len(plan_list) : HasPlan(plan_list[i])} -> FetchResponses] :
       \E delays \in [{i \in DOMAIN resp : SleepsAfter(i, plan_list)} -> Delays] :
           LET r == read_content_plan_data_flow(mode, plan_list, resp, delays)
           IN /\ fetch_result' = [k \in DOMAIN r \ {"log"} |-> r[k]]
              /\ fetch_log' = r.log
    /\ pc' = "read_done"
    /\ UNCHANGED <<plan_list, nonFetchVars>>

NextFetch == FetchFlow

SpecFetch == InitFetch /\ [][NextFetch]_vars

\* ------------------------------------------------------------------------
\* The submission flows on one set of client files
\* ------------------------------------------------------------------------
\* values of max_issues that cut a two-record file and that do not
FlowCaps == {1, 2}

InitFlow ==
    /\ pc = "files"
    /\ \E shapes \in SeqsUpTo(ClientFileShapes, MaxClients) :
           client_files = [i \in 1..Len(shapes) |-> ClientFile(i, shapes[i])]
    /\ validate_only \in BOOLEAN
    /\ flow_max_issues \in FlowCaps
    /\ flow_result = NoFlow
    /\ tracker_calls = <<>>
    /\ IdleSubmit /\ IdleSearch /\ IdleRow /\ IdleConvert /\ IdleMain /\ IdleFetch /\ IdleDate /\ IdleSheet /\ IdleRun

PerClientFlow ==
    /\ pc = "files"
    /\ \E conn \in ConnectionTests :
       \E resp \in [Submitting(client_files, validate_only, flow_max_issues)
                       -> FlowBulkResponses] :
           LET r == bulk_create_jira_issues_per_client_flow(
                        client_files, flow_max_issues, validate_only, conn, resp)
           IN /\ flow_result' = [k \in DOMAIN r \ {"calls"} |-> r[k]]
              /\ tracker_calls' = r.calls
    /\ pc' = "per_client_done"
    /\ UNCHANGED <<client_files, validate_only, flow_max_issues, nonFlowVars>>

\* the single-file flow, on the first of the files
SingleFileFlow ==
    /\ pc = "files"
    /\ client_files # <<>>
    /\ \E path \in PathStates :
       \E conn \in ConnectionTests :
       \E resp \in (IF 1 \in Submitting(client_files, validate_only, flow_max_issues)
                     THEN FlowBulkResponses
                     ELSE {CHOOSE x \in FlowBulkResponses : x.kind = "transport"}) :
           LET r == bulk_create_jira_issues_flow(
                        path, client_files[1], flow_max_issues, validate_only, conn, resp)
           IN /\ flow_result' = [k \in DOMAIN r \ {"calls"} |-> r[k]]
              /\ tracker_calls' = r.calls
    /\ pc' = "single_done"
    /\ UNCHANGED <<client_files, validate_only, flow_max_issues, nonFlowVars>>

NextFlow == PerClientFlow \/ SingleFileFlow

SpecFlow == InitFlow /\ [][NextFlow]_vars

\* ------------------------------------------------------------------------
\* get_date on one day of a run
\* ------------------------------------------------------------------------
\* days of the month a run can happen on: the first and the month ends
RunDays == {1, 28, 29, 30, 31}

RunDates ==
    { [y |-> y, m |-> m, d |-> d] :
        y \in {2024, 2025}, m \in 1..12, d \in RunDays }

\* target periods a caller passes: none, Indonesian and English names, an
\* unknown name, a text of one word
DateInputs ==
    { NoDateInput, DateInput("September", 2025), DateInput("Mei", 2025),
      DateInput("May", 2025), DateInput("Sept", 2025),
      [given |-> TRUE, parts |-> 1, month_name |-> "September2025", year |-> 0] }

InitDate ==
    /\ pc = "clock"
    /\ date_input \in DateInputs
    /\ now \in {dt \in RunDates : dt.d <= DaysInMonth(dt.y, dt.m)}
    /\ offset_months \in (0 - MaxOffset)..MaxOffset
    /\ language \in {"indonesian", "english"}
    /\ date_input.given => (now = [y |-> 2025, m |-> 8, d |-> 31] /\ offset_months = 1)
    /\ date_result = NoLabel
    /\ IdleSubmit /\ IdleSearch /\ IdleRow /\ IdleConvert /\ IdleMain /\ IdleFetch /\ IdleFlow /\ IdleSheet /\ IdleRun

GetDate ==
    /\ pc = "clock"
    /\ date_result' = get_date(date_input, now, offset_months, language)
    /\ pc' = IF date_result'.raised THEN "date_raised" ELSE "labelled"
    /\ UNCHANGED <<date_input, now, offset_months, language, nonDateVars>>

NextDate == GetDate

SpecDate == InitDate /\ [][NextDate]_vars

\* ------------------------------------------------------------------------
\* The format stage on one sheet
\* ------------------------------------------------------------------------
\* the header row and the rows under it: complete, short, blank cells
HeaderRow == <<"Name", "FolderID">>

SheetRows == { <<"Acme", "folder-acme">>, <<"Acme">>, <<"", "folder-acme">> }

\* values of the sheet: nothing, or the header followed by data rows
SheetValues ==
    {<<>>} \cup { <<HeaderRow>> \o rs : rs \in SeqsUpTo(SheetRows, MaxSheetRows) }

InitSheet ==
    /\ pc = "sheet"
    /\ values \in SheetValues
    /\ max_rows \in 0..(MaxSheetRows + 1)
    /\ format_result = NoFormat
    /\ IdleSubmit /\ IdleSearch /\ IdleRow /\ IdleConvert /\ IdleMain /\ IdleFetch /\ IdleFlow /\ IdleDate /\ IdleRun

FormatFlow ==
    /\ pc = "sheet"
    /\ \E mode \in ReadModes :
           format_result' = format_data_processor_flow(mode, values, max_rows)
    /\ pc' = "formatted"
    /\ UNCHANGED <<values, max_rows, nonSheetVars>>

NextSheet == FormatFlow

SpecSheet == InitSheet /\ [][NextSheet]_vars

\* ------------------------------------------------------------------------
\* Worlds: the Google side, the roster, the documents and the tracker
\* ------------------------------------------------------------------------
\* what happens to a roster row: it has no folder, its folder query raises,
\* its folder holds no content plan, the read of its content plan raises, or
\* its content plan holds one row
RunFates == {"no_folder", "query_raises", "no_document", "read_raises", "one_row"}

RunClient(n, f) ==
    [Name |-> n, FolderID |-> IF f = "no_folder" THEN "" ELSE "folder-" \o n, fate |-> f]

\* every fate for one name, the fates that lead to a file for the others,
\* and a row without a name
RunClients ==
    { RunClient("Acme", f) : f \in RunFates }
    \cup { RunClient("Acme.", f) : f \in {"no_document", "one_row"} }
    \cup { RunClient("Klinik Utama Gresik", "one_row") }
    \cup { [Name |-> "", FolderID |-> "folder-blank", fate |-> "no_document"] }

DriveOf(c, i) ==
    IF c.fate = "query_raises" THEN [raises |-> TRUE, files |-> <<>>]
    ELSE IF c.fate \in {"no_folder", "no_document"} THEN [raises |-> FALSE, files |-> <<>>]
    ELSE [raises |-> FALSE,
          files |-> <<[id |-> FileId(i), name |-> ExpectedFilename(c.Name, SearchMonth)]>>]

SheetOf(c) ==
    IF c.fate = "read_raises" THEN [raises |-> TRUE, data |-> <<>>]
    ELSE IF c.fate = "one_row"
    THEN [raises |-> FALSE,
          data |-> <<Row(Cell(<<"Launch post">>), NoCell(EmptyText), "Reel")>>]
    ELSE [raises |-> FALSE, data |-> <<>>]

RunTrackerResponses ==
    { [kind |-> "http", code |-> 201, issues |-> <<"ESKL-1">>, errors |-> <<>>],
      [kind |-> "transport", code |-> 0, issues |-> <<>>, errors |-> <<>>] }

World(google, cs, jira, tracker) ==
    [google |-> google,
     values |-> <<HeaderRow>> \o [i \in 1..Len(cs) |-> <<cs[i].Name, cs[i].FolderID>>],
     drive |-> [i \in 1..Len(cs) |-> DriveOf(cs[i], i)],
     sheets |-> [i \in 1..Len(cs) |-> SheetOf(cs[i])],
     jira |-> jira,
     tracker |-> tracker]

\* the tracker's answer matters only when its connection test passes; the
\* roster is not seen when the Google side fails at stage entry
Worlds ==
    { World("ok", cs, "success", tr) :
        cs \in SeqsUpTo(RunClients, MaxRunClients), tr \in RunTrackerResponses }
    \cup { World("ok", cs, "error", CHOOSE tr \in RunTrackerResponses : tr.kind = "http") :
             cs \in SeqsUpTo(RunClients, MaxRunClients) }
    \cup { World(g, cs, "success", CHOOSE tr \in RunTrackerResponses : tr.kind = "http") :
             g \in ReadModes \ {"ok"}, cs \in SeqsUpTo(RunClients, 1) }

Tagged(stage, io) ==
    [k \in 1..Len(io) |-> [stage |-> stage, op |-> io[k].op, target |-> io[k].target]]

\* a stage has been called and has returned
Ran(stage, out) ==
    \E done \in {out} :
        /\ returned' = (stage :> done.result) @@ returned
        /\ io_log' = io_log \o Tagged(stage, done.io)
        /\ disk' = SaveAll(disk, done.writes)
        /\ UNCHANGED <<world, nonRunVars>>

Failed(stage) == "error" \in DOMAIN returned[stage]

\* ------------------------------------------------------------------------
\* Specification: each stage called on its own
\* ------------------------------------------------------------------------
InitStages ==
    /\ pc = "world"
    /\ world \in Worlds
    /\ disk = <<>>
    /\ io_log = <<>>
    /\ returned = <<>>
    /\ IdleSubmit /\ IdleSearch /\ IdleRow /\ IdleConvert /\ IdleMain /\ IdleFetch /\ IdleFlow /\ IdleDate /\ IdleSheet

CallRoster ==
    /\ pc = "world"
    /\ \E out \in {RosterStage(world)} : Ran("roster", out)
    /\ pc' = "called"

CallSearch ==
    /\ pc = "world"
    /\ \E out \in {SearchStage(world)} : Ran("search", out)
    /\ pc' = "called"

CallFilter ==
    /\ pc = "world"
    /\ \E out \in {FilterStage(world)} : Ran("filter", out)
    /\ pc' = "called"

CallFetch ==
    /\ pc = "world"
    /\ \E out \in {FetchStage(world)} : Ran("fetch", out)
    /\ pc' = "called"

CallConvert ==
    /\ pc = "world"
    /\ \E out \in {ConvertStage(world)} : Ran("convert", out)
    /\ pc' = "converted"

\* the per-client flow on the client_files of a transform that succeeded
CallSubmit ==
    /\ pc = "converted"
    /\ ~Failed("convert")
    /\ \E vo \in BOOLEAN :
           \E out \in {SubmitStage(world, disk,
                                   returned["convert"].output_files.client_files, vo)} :
               Ran(IF vo THEN "validate" ELSE "create", out)
    /\ pc' = "called"

NextStages ==
    CallRoster \/ CallSearch \/ CallFilter \/ CallFetch \/ CallConvert \/ CallSubmit

SpecStages == InitStages /\ [][NextStages]_vars

\* ------------------------------------------------------------------------
\* Specification: one run of main() over a world
\* ------------------------------------------------------------------------
\* the step file main saves after a step that returned no error
SavedByMain(out, filename) ==
    IF "error" \in DOMAIN out.result THEN out
    ELSE [out EXCEPT !.writes = @ \o <<[path |-> <<filename>>, content |-> out.result]>>,
                     !.io = @ \o <<[op |-> "file_write", target |-> <<filename>>]>>]

\* max_rows as main passes it to step 5
MainMaxRows == 3

InitRun ==
    /\ pc = "step1"
    /\ world \in Worlds
    /\ disk = <<>>
    /\ io_log = <<>>
    /\ returned = <<>>
    /\ IdleSubmit /\ IdleSearch /\ IdleRow /\ IdleConvert /\ IdleMain /\ IdleFetch /\ IdleFlow /\ IdleDate /\ IdleSheet

RunStep1 ==
    /\ pc = "step1"
    /\ \E out \in {RosterStage(world)} :
           /\ Ran("roster", SavedByMain(out, "step1_client_data.json"))
           /\ pc' = IF "error" \in DOMAIN out.result THEN "returned" ELSE "step2"

RunStep2 ==
    /\ pc = "step2"
    /\ \E out \in {SearchStage(world)} :
           /\ Ran("search", SavedByMain(out, "step2_content_plan_search.json"))
           /\ pc' = IF "error" \in DOMAIN out.result THEN "returned" ELSE "step3"

RunStep3 ==
    /\ pc = "step3"
    /\ \E out \in {FilterStage(world)} :
           /\ Ran("filter", SavedByMain(out, "step3_filtered_results.json"))
           /\ pc' = IF "error" \in DOMAIN out.result THEN "returned" ELSE "step4"

RunStep4 ==
    /\ pc = "step4"
    /\ \E out \in {FetchStage(world)} :
           /\ Ran("fetch", SavedByMain(out, "step4_content_plan_data.json"))
           /\ pc' = IF "error" \in DOMAIN out.result THEN "returned" ELSE "step5"

\* the formatter saves its own file; main does not look at its result
RunStep5 ==
    /\ pc = "step5"
    /\ \E out \in {FormatStage(world, MainMaxRows)} :
           /\ Ran("format", SavedByMain(out, "step5_formatted_data.json"))
           /\ pc' = "step6"

RunStep6 ==
    /\ pc = "step6"
    /\ \E out \in {ConvertStage(world)} :
           /\ Ran("convert", SavedByMain(out, "step6_jira_assets.json"))
           /\ pc' = IF "error" \in DOMAIN out.result THEN "returned" ELSE "step7"

RunStep7 ==
    /\ pc = "step7"
    /\ \E out \in {SubmitStage(world, disk,
                               returned["convert"].output_files.client_files, TRUE)} :
           /\ Ran("validate", SavedByMain(out, "step7_validation_per_client.json"))
           /\ pc' = "step8"

RunStep8 ==
    /\ pc = "step8"
    /\ \E out \in {SubmitStage(world, disk,
                               returned["convert"].output_files.client_files, FALSE)} :
           /\ Ran("create", SavedByMain(out, "step8_bulk_creation_per_client.json"))
           /\ pc' = "returned"

NextRun == RunStep1 \/ RunStep2 \/ RunStep3 \/ RunStep4 \/ RunStep5 \/ RunStep6 \/ RunStep7 \/ RunStep8

SpecRun == InitRun /\ [][NextRun]_vars

\* ------------------------------------------------------------------------
\* Properties of validation and capping
\* ------------------------------------------------------------------------
\* positions (1-based) of the records the validator classifies as valid
ValidPositions == {i \in 1..Len(issue_updates) : IssueValid(issue_updates[i])}

\* the k-th smallest element of a finite set of naturals
KthOf(S, k) == CHOOSE x \in S : Cardinality({y \in S : y < x}) = k - 1

\* C4: validate_bulk_issue_data with max_issues = N returns as valid_issues
\* exactly the first min(N, v) valid records in input order (v = number of
\* valid input records), so at most N of them; a truncation warning carrying
\* v and N is present iff v > N; and create_issues_bulk, called with that
\* list, sends it unchanged and reports total_requested = final_count.
C4_CapFirstN ==
    (validation_result.status = "success") =>
        LET v == Cardinality(ValidPositions)
            out == validation_result.valid_issues
        IN /\ Len(out) <= max_issues
           /\ Len(out) = Min(max_issues, v)
           /\ \A k \in 1..Len(out) : out[k] = issue_updates[KthOf(ValidPositions, k)]
           /\ validation_result.final_count = Len(out)
           /\ (v > max_issues) <=>
                  (validation_result.warnings = <<[from |-> v, to |-> max_issues]>>)
           /\ (v <= max_issues) <=> (validation_result.warnings = <<>>)
           /\ \A j \in 1..Len(posted) : posted[j] = out
           /\ ("total_requested" \in DOMAIN bulk_result) =>
                  bulk_result.total_requested = validation_result.final_count

\* C4 witness: more valid records than the cap, capped list sent and accepted
C4_Witness ==
    /\ pc = "reported"
    /\ validation_result.status = "success"
    /\ Cardinality(ValidPositions) > max_issues
    /\ validation_result.warnings # <<>>
    /\ bulk_result.status = "success"
    /\ bulk_result.total_requested = max_issues
    /\ Len(posted) = 1

\* what the specification calls a valid record: a non-empty project
\* reference, a non-empty issue-type reference and a non-blank summary
CarriesRequired(iu) ==
    /\ iu.hasFields
    /\ iu.project.present /\ iu.project.isDict /\ iu.project.has /\ iu.project.val # ""
    /\ iu.issuetype.present /\ iu.issuetype.isDict /\ iu.issuetype.has
    /\ iu.issuetype.val # ""
    /\ iu.summary.present /\ iu.summary.kind = "str" /\ Strip(iu.summary.text) # <<>>

InInvalid(i) ==
    \E k \in 1..Len(validation_result.invalid_issues) :
        /\ validation_result.invalid_issues[k].index = i - 1
        /\ validation_result.invalid_issues[k].issue = issue_updates[i]
        /\ validation_result.invalid_issues[k].errors # <<>>

InValid(iu) ==
    \E k \in 1..Len(validation_result.valid_issues) :
        validation_result.valid_issues[k] = iu

\* C5: a record is classified valid iff it carries a non-empty project
\* reference, a non-empty issue-type reference and a non-blank summary;
\* any other record is in invalid_issues with reasons and not in valid_issues.
C5_ValidIffRequired ==
    (validation_result.status = "success") =>
        \A i \in 1..Len(issue_updates) :
            /\ CarriesRequired(issue_updates[i]) <=> ~InInvalid(i)
            /\ ~CarriesRequired(issue_updates[i]) => ~InValid(issue_updates[i])

\* C6: one defective record never blocks the others: the call returns
\* success, the defective record is in invalid_issues and every valid record
\* is in valid_issues up to the cap.
C6_DefectDoesNotBlock ==
    (pc # "collected") =>
        /\ validation_result.status = "success"
        /\ \A i \in 1..Len(issue_updates) :
              ~IssueValid(issue_updates[i]) => InInvalid(i)
        /\ Len(validation_result.valid_issues)
              = Min(max_issues, Cardinality(ValidPositions))

\* ------------------------------------------------------------------------
\* Properties of the document locator
\* ------------------------------------------------------------------------
Searched == pc = "searched" /\ "error" \notin DOMAIN search_result

FirstWhere(S) == CHOOSE i \in S : \A j \in S : i <= j

\* C2: document matching: if some candidate's name equals the expected name,
\* that exact-name candidate is selected wherever it sits in the list;
\* otherwise the first candidate whose name contains the expected name;
\* otherwise the match is null.
C2_ExactNameWins ==
    Searched =>
        \A k \in 1..Len(search_result.clients) :
            LET d == search_result.clients[k] IN
            ("files_found" \in DOMAIN d) =>
                LET files == d.files_found
                    exact == {i \in 1..Len(files) :
                                 Strip(files[i].name) = d.expected_filename}
                    partial == {i \in 1..Len(files) :
                                   Contains(Strip(files[i].name), d.expected_filename)}
                IN IF exact # {} THEN d.exact_match = files[FirstWhere(exact)]
                   ELSE IF partial # {} THEN d.exact_match = files[FirstWhere(partial)]
                   ELSE d.exact_match = NoFile

\* roster positions the locator must skip
Unsearchable == {i \in 1..Len(clients) : ~Searchable(clients[i])}

\* C3: a client without a folder reference (or a name) causes no document
\* store query and the locator's output holds an explicit skip record for
\* it; a roster of 3 clients whose client 2 has no folder reference gives
\* exactly 2 search attempts and 1 skip record, without raising.
C3_SkipRecorded ==
    pc = "searched" =>
        \/ "error" \in DOMAIN search_result
        \/ /\ Len(drive_queries) = Len(clients) - Cardinality(Unsearchable)
           /\ \A i \in Unsearchable :
                 \E k \in 1..Len(search_result.output) :
                     search_result.output[k].number = i

\* ------------------------------------------------------------------------
\* Properties of the row transformer
\* ------------------------------------------------------------------------
\* the Tanggal value parses under one of the formats
TanggalParses == ParsingFormats(TanggalOf(row)) # {}

\* the calendar date the Tanggal value denotes
TanggalDate ==
    LET i == CHOOSE k \in ParsingFormats(TanggalOf(row)) :
                 \A j \in ParsingFormats(TanggalOf(row)) : k <= j
    IN Strptime(StripText(TanggalOf(row)), date_formats[i])

\* C7: start date (customfield_10015) and due date (duedate) are both
\* non-empty iff the publication date parsed to YYYY-MM-DD and both the
\* empty string otherwise; never exactly one of the two is set.
C7_DatesBothOrNeither ==
    (pc = "converted") =>
        /\ TanggalParses =>
              /\ jira_issue.customfield_10015 # EmptyText
              /\ jira_issue.duedate # EmptyText
        /\ ~TanggalParses =>
              /\ jira_issue.customfield_10015 = EmptyText
              /\ jira_issue.duedate = EmptyText

\* C7 witness: a day/month/2-digit-year date was converted and both dates set
C7_Witness ==
    /\ pc = "converted"
    /\ TanggalOf(row).kind = "date" /\ TanggalOf(row).sep = "/"
    /\ TanggalOf(row).f[3].w = 2
    /\ jira_issue.customfield_10015 # EmptyText
    /\ jira_issue.duedate # EmptyText

\* the day before a calendar date, by the calendar rules
PrevDay(dt) ==
    IF dt.d > 1 THEN [y |-> dt.y, m |-> dt.m, d |-> dt.d - 1]
    ELSE IF dt.m > 1 THEN [y |-> dt.y, m |-> dt.m - 1, d |-> DaysInMonth(dt.y, dt.m - 1)]
    ELSE [y |-> dt.y - 1, m |-> 12, d |-> 31]

RECURSIVE DaysBack(_, _)
DaysBack(dt, n) == IF n = 0 THEN dt ELSE DaysBack(PrevDay(dt), n - 1)

\* "YYYY-MM-DD" of a calendar date
IsoText(dt) ==
    [kind |-> "date", pad |-> FALSE, sep |-> "-",
     f |-> <<[v |-> dt.y, w |-> 4], [v |-> dt.m, w |-> 2], [v |-> dt.d, w |-> 2]>>]

\* C8: whenever the publication date parses, start_date is the calendar date
\* exactly 7 days before it and due_date the one exactly 1 day before it
\* (6 days after start_date), across month and year boundaries, and both are
\* determined by the Tanggal value alone; 2025-09-10 gives 2025-09-03 and
\* 2025-09-09.
C8_DateOffsets ==
    (pc = "converted" /\ TanggalParses) =>
        /\ jira_issue.customfield_10015 = IsoText(DaysBack(TanggalDate, 7))
        /\ jira_issue.duedate = IsoText(DaysBack(TanggalDate, 1))
        /\ jira_issue.customfield_10015
              = IsoText(DaysBack(Strptime(jira_issue.duedate, IsoFormat), 6))
        /\ (TanggalDate = [ok |-> TRUE, y |-> 2025, m |-> 9, d |-> 10]) =>
              /\ jira_issue.customfield_10015
                    = IsoText([y |-> 2025, m |-> 9, d |-> 3])
              /\ jira_issue.duedate = IsoText([y |-> 2025, m |-> 9, d |-> 9])

\* C8 witness: a publication date early in January, start date in the
\* previous year
C8_Witness ==
    /\ pc = "converted"
    /\ TanggalParses
    /\ TanggalDate.m = 1
    /\ jira_issue.customfield_10015.f[1].v = TanggalDate.y - 1
    /\ jira_issue.duedate.f[1].v = TanggalDate.y

\* C9: the summary is the trimmed Topik value and, whenever that value is
\* absent or blank (empty or whitespace-only), the placeholder
\* "Content Asset"; the summary is never empty.
C9_SummaryOrPlaceholder ==
    (pc = "converted") =>
        /\ jira_issue.summary.text
              = IF Strip(TopikOf(row)) = <<>> THEN <<"Content Asset">>
                ELSE Strip(TopikOf(row))
        /\ jira_issue.summary.text # <<>>

\* ------------------------------------------------------------------------
\* Properties of the transform stage
\* ------------------------------------------------------------------------
\* fetched plans none of whose rows is structurally malformed
WellFormedPlans ==
    {i \in 1..Len(content_plans) :
        /\ "data" \in DOMAIN content_plans[i]
        /\ \A k \in 1..Len(content_plans[i].data) :
              content_plans[i].data[k].kind = "mapping"}

\* entries of jira_assets made for the plan at position i
AssetEntriesOf(i) ==
    {k \in 1..Len(convert_result.jira_assets) :
        /\ convert_result.jira_assets[k].content_plan_id = content_plans[i].content_plan_id
        /\ convert_result.jira_assets[k].client_name = content_plans[i].client_name}

\* number of records in a set of entries of jira_assets
RECURSIVE RecordsIn(_)
RecordsIn(K) ==
    IF K = {} THEN 0
    ELSE LET k == CHOOSE x \in K : TRUE
         IN Len(convert_result.jira_assets[k].assets) + RecordsIn(K \ {k})

\* C10: for every client whose fetched data has no structurally malformed
\* row, the number of transformed records equals the number of its rows, one
\* record per row in row order, and total_assets_created is the sum of the
\* record counts over all clients.
C10_OneRecordPerRow ==
    (pc = "transformed" /\ "error" \notin DOMAIN convert_result) =>
        /\ \A i \in WellFormedPlans :
              /\ RecordsIn(AssetEntriesOf(i)) = Len(content_plans[i].data)
              /\ \A k \in AssetEntriesOf(i) :
                    LET e == convert_result.jira_assets[k] IN
                    /\ e.asset_count = Len(content_plans[i].data)
                    /\ \A j \in 1..Len(e.assets) :
                          e.assets[j].metadata.original_row = content_plans[i].data[j]
        /\ convert_result.summary.total_assets_created
              = RecordsIn(1..Len(convert_result.jira_assets))

\* C10 witness: two clients transformed, one of them with a degraded row
\* (blank Topik, no Tanggal), every row giving a record
C10_Witness ==
    /\ pc = "transformed"
    /\ "error" \notin DOMAIN convert_result
    /\ WellFormedPlans = {1, 2}
    /\ Len(content_plans[1].data) = 2
    /\ \E j \in 1..2 : content_plans[1].data[j].Topik = Cell(<<" ">>)
    /\ Len(content_plans[2].data) = 1
    /\ convert_result.summary.total_assets_created = 3

\* ------------------------------------------------------------------------
\* Properties of the pipeline controller
\* ------------------------------------------------------------------------
\* C1: in one run of main, once a stage returns a result that contains an
\* error, no later stage of that run is invoked - for every stage, the
\* format stage (step 5) and the validate-only submission (step 7) included.
C1_ErrorStopsRun ==
    \A i \in 1..Len(invoked) : \A j \in 1..Len(invoked) :
        i < j => ~HasError(step_result[invoked[i]])

\* ------------------------------------------------------------------------
\* Properties of the fetcher
\* ------------------------------------------------------------------------
Reads == {k \in 1..Len(fetch_log) : fetch_log[k].op = "read"}
Sleeps == {k \in 1..Len(fetch_log) : fetch_log[k].op = "sleep"}

FetchDone == pc = "read_done" /\ "error" \notin DOMAIN fetch_result

\* C11: a rate-limit sleep happens only between two consecutive document
\* fetches and never after the last fetch of the run: the number of sleeps
\* is max(0, fetches attempted - 1), also when the list ends with clients
\* that have no document.
C11_SleepsBetweenFetches ==
    pc = "read_done" =>
        /\ Cardinality(Sleeps) =
               (IF Cardinality(Reads) = 0 THEN 0 ELSE Cardinality(Reads) - 1)
        /\ \A k \in Sleeps : \E j \in Reads : j > k

\* C12: a client whose document match is null is never fetched and appears
\* in the output with its number and name unchanged, a null document id and
\* the marker error "No content plan ID available".
C12_NoDocumentPassedThrough ==
    FetchDone =>
        /\ Len(fetch_result.content_plans) = Len(plan_list)
        /\ \A i \in 1..Len(plan_list) :
              plan_list[i].content_plan_id = None =>
                  /\ \A k \in Reads : fetch_log[k].number # plan_list[i].number
                  /\ fetch_result.content_plans[i] =
                         [number |-> plan_list[i].number,
                          client_name |-> plan_list[i].client_name,
                          content_plan_id |-> None,
                          error |-> "No content plan ID available"]

C12_Witness ==
    /\ FetchDone
    /\ Reads # {}
    /\ \E i \in 1..Len(plan_list) :
          plan_list[i].content_plan_id = None /\ plan_list[i].number # i
    /\ \E i \in 1..Len(plan_list) : "error" \in DOMAIN plan_list[i]

\* position in content_plan_list of the client a read was made for
PositionOf(number) == CHOOSE i \in 1..Len(plan_list) : plan_list[i].number = number

\* C14: an exception raised while fetching one client's document is recorded
\* as that client's error entry, the stage goes on without a top-level
\* error, and what follows the failed fetch is the same randomized delay (a
\* draw from [min_delay_seconds, max_delay_seconds]) that follows a
\* successful one.
C14_FetchErrorIsolated ==
    pc = "read_done" =>
        \A k \in Reads :
            LET i == PositionOf(fetch_log[k].number)
                followed == k < Len(fetch_log) /\ fetch_log[k + 1].op = "sleep"
            IN /\ followed <=> i < Len(plan_list)
               /\ followed => fetch_log[k + 1].seconds \in Delays
               /\ fetch_log[k].raised =>
                     /\ "error" \notin DOMAIN fetch_result
                     /\ Len(fetch_result.content_plans) = Len(plan_list)
                     /\ "error" \in DOMAIN fetch_result.content_plans[i]
                     /\ "data" \notin DOMAIN fetch_result.content_plans[i]
                     /\ fetch_result.content_plans[i].number = plan_list[i].number
                     /\ fetch_result.content_plans[i].content_plan_id =
                            plan_list[i].content_plan_id

C14_Witness ==
    /\ pc = "read_done"
    /\ \E k \in Reads : \E j \in Reads :
          /\ k < j
          /\ fetch_log[k].raised /\ ~fetch_log[j].raised
          /\ fetch_log[k + 1].op = "sleep"
          /\ "data" \in DOMAIN fetch_result.content_plans[PositionOf(fetch_log[j].number)]

\* ------------------------------------------------------------------------
\* Properties of the locator under failing queries
\* ------------------------------------------------------------------------
OutputFor(i) == {k \in 1..Len(search_result.output) : search_result.output[k].number = i}

\* C13: an exception raised by the document-store query for one client is
\* caught: that client gets an output entry with a null document id and an
\* error field, every later client of the roster is still searched, and the
\* flow returns without a top-level error.
C13_SearchErrorIsolated ==
    (pc = "searched" /\ drive_raised # {}) =>
        /\ "error" \notin DOMAIN search_result
        /\ Len(drive_queries) = Cardinality(SearchableIndexes(clients))
        /\ \A i \in drive_raised :
              /\ \E k \in OutputFor(i) :
                    /\ search_result.output[k].content_plan_id = None
                    /\ "error" \in DOMAIN search_result.output[k]
              /\ \A j \in SearchableIndexes(clients) : j > i => OutputFor(j) # {}

C13_Witness ==
    /\ pc = "searched"
    /\ \E i \in drive_raised : \E j \in SearchableIndexes(clients) :
          /\ j > i
          /\ j \notin drive_raised
          /\ \E k \in OutputFor(j) : search_result.output[k].content_plan_id # None

\* C20: every stage returns either a non-empty item list or an explicit
\* error string; an envelope with an empty item list and no error key is
\* never returned.  Stated here for the document search stage.
C20_ListOrError ==
    pc = "searched" =>
        \/ "error" \in DOMAIN search_result
        \/ search_result.output # <<>>

\* ------------------------------------------------------------------------
\* Properties of one bulk request
\* ------------------------------------------------------------------------
Called == pc = "reported" /\ bulk_response.kind # "none"

FullFailure == bulk_response.kind # "http" \/ bulk_response.code # 201

\* C17: a full-request failure of a bulk submission (transport or auth
\* exception, any status other than 201) is reported as exactly one error
\* with the raw failure detail and nothing created, and the request is not
\* sent again: one call of create_issues_bulk issues at most one HTTP
\* request, whatever the retries setting of the task.
C17_FailureReportedOnceNoResend ==
    Called =>
        /\ Len(posted) <= 1
        /\ FullFailure =>
              /\ bulk_result.status = "error"
              /\ "error" \in DOMAIN bulk_result
              /\ "errors" \notin DOMAIN bulk_result
              /\ "created_issues" \notin DOMAIN bulk_result
              /\ "total_created" \in DOMAIN bulk_result => bulk_result.total_created = 0
              /\ bulk_response.kind = "http" =>
                    /\ bulk_result.status_code = bulk_response.code
                    /\ "response_text" \in DOMAIN bulk_result
              /\ bulk_response.kind # "http" => bulk_result.error = bulk_response.kind

C17_Witness ==
    /\ Called
    /\ bulk_response.kind = "transport"
    /\ Len(posted) = 1
    /\ bulk_result.status = "error"

\* C18: a partially accepted response is surfaced unchanged: with c created
\* issues and e per-item errors in the tracker's response, the result has
\* total_created = c, total_errors = e, and the created list and the error
\* payloads exactly as received.
C18_PartialSurfacedUnchanged ==
    (Called /\ ~FullFailure) =>
        /\ bulk_result.status = "success"
        /\ bulk_result.created_issues = bulk_response.issues
        /\ bulk_result.errors = bulk_response.errors
        /\ bulk_result.total_created = Len(bulk_response.issues)
        /\ bulk_result.total_errors = Len(bulk_response.errors)

C18_Witness ==
    /\ Called
    /\ ~FullFailure
    /\ Len(bulk_response.issues) = 2
    /\ Len(bulk_response.errors) = 1
    /\ bulk_result.total_created = 2
    /\ bulk_result.total_errors = 1

\* C19: for every batch outcome reported by create_issues_bulk,
\* total_created + total_errors <= total_requested, whatever response the
\* tracker returns.
C19_CountsWithinRequested ==
    (Called /\ "total_created" \in DOMAIN bulk_result) =>
        bulk_result.total_created + bulk_result.total_errors
            <= bulk_result.total_requested

\* ------------------------------------------------------------------------
\* Properties of the submission flows
\* ------------------------------------------------------------------------
ConnectionFailed ==
    \E k \in 1..Len(tracker_calls) :
        tracker_calls[k].op = "server_info" /\ tracker_calls[k].status # "success"

BulkCallsFor(name) ==
    {k \in 1..Len(tracker_calls) :
        tracker_calls[k].op = "bulk" /\ tracker_calls[k].client_name = name}

RECURSIVE IssuesCreatedBy(_)
IssuesCreatedBy(calls) ==
    IF calls = <<>> THEN 0
    ELSE Len(Head(calls).issues) + IssuesCreatedBy(Tail(calls))

\* a file whose records pass validation with at least one valid record
Submittable(f) ==
    /\ f.file = "ok"
    /\ \A i \in 1..Len(f.issue_updates) : ~IssueRaises(f.issue_updates[i])
    /\ \E i \in 1..Len(f.issue_updates) : IssueValid(f.issue_updates[i])

\* C15: in the per-client flow a failure for one client (unreadable file,
\* failed validation, rejected or failed bulk request, an exception) is
\* recorded as that client's result only: every other client of client_files
\* is still processed, the issues created for the other clients are counted
\* in total_issues_created, and the result carries no top-level error.
C15_ClientFailureIsolated ==
    (pc = "per_client_done" /\ ~ConnectionFailed) =>
        /\ "error" \notin DOMAIN flow_result
        /\ Len(flow_result.client_results) = Len(client_files)
        /\ \A i \in 1..Len(client_files) :
              /\ flow_result.client_results[i].client_name = client_files[i].client_name
              /\ (~validate_only /\ Submittable(client_files[i]))
                     => BulkCallsFor(client_files[i].client_name) # {}
        /\ flow_result.summary.total_issues_created = IssuesCreatedBy(tracker_calls)

C15_Witness ==
    /\ pc = "per_client_done"
    /\ Len(client_files) = 3
    /\ "error" \notin DOMAIN flow_result
    /\ flow_result.client_results[1].status = "success"
    /\ flow_result.client_results[2].status = "error"
    /\ flow_result.client_results[3].status = "success"
    /\ flow_result.summary.total_issues_created = 2

\* C16: with validate_only = true neither submission flow calls the tracker
\* (no bulk request, no connection test), the validate-and-cap step is the
\* one of creation mode, and the outcome reports a dry validation - status
\* "validated" per client, or mode "validation_only" with counts - with no
\* issue created.
C16_DryRunNeverCallsTracker ==
    (validate_only /\ pc \in {"per_client_done", "single_done"}) =>
        /\ tracker_calls = <<>>
        /\ "bulk_creation" \notin DOMAIN flow_result
        /\ pc = "per_client_done" =>
              /\ "error" \notin DOMAIN flow_result
              /\ flow_result.summary.validate_only
              /\ flow_result.summary.total_issues_created = 0
              /\ \A i \in 1..Len(client_files) :
                    LET res == flow_result.client_results[i]
                        f == client_files[i]
                    IN /\ res.status \in {"validated", "error"}
                       /\ "bulk_creation" \notin DOMAIN res
                       /\ res.status = "validated" <=>
                              (f.file = "ok" /\ \A j \in 1..Len(f.issue_updates) :
                                                    ~IssueRaises(f.issue_updates[j]))
                       /\ res.status = "validated" =>
                              /\ res.validation.valid_issues =
                                     Take(ValidIssuesOf(f.issue_updates), flow_max_issues)
                              /\ res.validation.final_count =
                                     Min(Len(ValidIssuesOf(f.issue_updates)), flow_max_issues)
        /\ (pc = "single_done" /\ "error" \notin DOMAIN flow_result) =>
              /\ flow_result.summary.mode = "validation_only"
              /\ flow_result.summary.valid_issues =
                     Min(Len(ValidIssuesOf(client_files[1].issue_updates)), flow_max_issues)
              /\ flow_result.summary.total_issues_in_file =
                     Len(client_files[1].issue_updates)

C16_Witness ==
    /\ validate_only
    /\ pc = "per_client_done"
    /\ "error" \notin DOMAIN flow_result
    /\ \E i \in 1..Len(client_files) :
          /\ flow_result.client_results[i].status = "validated"
          /\ flow_result.client_results[i].validation.warnings # <<>>
    /\ \E i \in 1..Len(client_files) : flow_result.client_results[i].status = "error"

\* ------------------------------------------------------------------------
\* Properties of the validator as a partition
\* ------------------------------------------------------------------------
\* positions (1-based) of the input that invalid_issues names
InvalidPositions ==
    {validation_result.invalid_issues[k].index + 1 :
        k \in 1..Len(validation_result.invalid_issues)}

\* positions of the input that invalid_issues does not name
KeptPositions == (1..Len(issue_updates)) \ InvalidPositions

\* C30: validate_bulk_issue_data partitions its input.  When it returns
\* status success, every input record is in exactly one of valid_issues
\* (before capping) or invalid_issues; both lists keep the input's relative
\* order; an invalid entry carries the record's original (0-based) index and
\* the record itself, unmodified; final_count + invalid_count <=
\* original_count, with equality whenever the number of valid records is at
\* most max_issues.
C30_ValidatorPartitions ==
    (validation_result.status = "success") =>
        LET inv == validation_result.invalid_issues
            out == validation_result.valid_issues
        IN /\ validation_result.original_count = Len(issue_updates)
           /\ validation_result.invalid_count = Len(inv)
           /\ validation_result.final_count = Len(out)
           /\ \A k \in 1..Len(inv) :
                 /\ inv[k].index \in 0..(Len(issue_updates) - 1)
                 /\ inv[k].issue = issue_updates[inv[k].index + 1]
                 /\ ~IssueValid(inv[k].issue)
                 /\ \A j \in 1..(k - 1) : inv[j].index < inv[k].index
           /\ Len(out) <= Cardinality(KeptPositions)
           /\ \A k \in 1..Len(out) :
                 /\ out[k] = issue_updates[KthOf(KeptPositions, k)]
                 /\ IssueValid(out[k])
           /\ \A i \in KeptPositions : IssueValid(issue_updates[i])
           /\ validation_result.final_count + validation_result.invalid_count
                 <= validation_result.original_count
           /\ (Cardinality(KeptPositions) <= max_issues) =>
                 validation_result.final_count + validation_result.invalid_count
                     = validation_result.original_count

\* C30 witness: a defective record between two different valid ones, the
\* cap not reached: two valid, one invalid at index 1, counts adding up
C30_Witness ==
    /\ pc = "validated"
    /\ Len(issue_updates) = 3
    /\ max_issues >= 2
    /\ InvalidPositions = {2}
    /\ validation_result.valid_issues = <<issue_updates[1], issue_updates[3]>>
    /\ issue_updates[1] # issue_updates[3]
    /\ validation_result.final_count + validation_result.invalid_count = 3

\* ------------------------------------------------------------------------
\* Properties of the transformer's records under the validator
\* ------------------------------------------------------------------------
\* C27: every record that convert_content_plan_row_to_jira_issue produces,
\* for any mapping row and any client name, is classified valid by
\* validate_bulk_issue_data: the validator returns success with the record
\* in valid_issues and nothing in invalid_issues, so no transformed record
\* is excluded from submission as invalid.
C27_TransformedIsValid ==
    (pc = "converted") =>
        LET v == validate_bulk_issue_data(<<jira_issue>>, 1)
        IN /\ v.status = "success"
           /\ v.valid_issues = <<jira_issue>>
           /\ v.invalid_issues = <<>>

\* ------------------------------------------------------------------------
\* Properties of the date reader
\* ------------------------------------------------------------------------
\* the order of readings the specification gives: ISO, day/month/year,
\* month/day/year, day-month-year, year/month/day, then the 2-digit-year
\* variants; a reading is a separator and the meaning of the three groups
ReadingOrder ==
    << <<"-", "Y", "m", "d">>, <<"/", "d", "m", "Y">>, <<"/", "m", "d", "Y">>,
       <<"-", "d", "m", "Y">>, <<"/", "Y", "m", "d">>, <<"/", "d", "m", "y">>,
       <<"/", "m", "d", "y">>, <<"-", "d", "m", "y">> >>

\* the calendar date a text denotes under a reading, if it denotes one
ReadAs(t, reading) ==
    Strptime(StripText(t), [sep |-> reading[1], dir |-> SubSeq(reading, 2, 4)])

\* C24: format_date_for_jira on a string returns the YYYY-MM-DD rendering
\* given by the first reading, in the fixed order ISO, day/month/4-digit
\* year, month/day/4-digit year, day-month-year, year/month/day, then the
\* 2-digit-year variants, that parses the input (a slash date valid under
\* both readings is read as day/month); when no reading parses, it returns
\* the raw input unchanged, and it raises no error.
C24_FirstFormatWins ==
    (pc = "converted") =>
        LET t == TanggalOf(row)
            out == jira_issue.customfield_10040
        IN /\ \A i \in 1..Len(ReadingOrder) :
                 (/\ ReadAs(t, ReadingOrder[i]).ok
                  /\ \A j \in 1..(i - 1) : ~ReadAs(t, ReadingOrder[j]).ok)
                 => LET dt == ReadAs(t, ReadingOrder[i])
                    IN /\ out.kind = "date" /\ out.sep = "-" /\ ~out.pad
                       /\ out.f = << [v |-> dt.y, w |-> 4], [v |-> dt.m, w |-> 2],
                                     [v |-> dt.d, w |-> 2] >>
           /\ (\A i \in 1..Len(ReadingOrder) : ~ReadAs(t, ReadingOrder[i]).ok)
                 => out = t

\* C24 witness: 03/07/2025, valid as 3 July and as 7 March, was read as
\* day/month and rendered 2025-07-03
C24_Witness ==
    /\ pc = "converted"
    /\ TanggalOf(row).kind = "date" /\ TanggalOf(row).sep = "/"
    /\ TanggalOf(row).f = << [v |-> 3, w |-> 2], [v |-> 7, w |-> 2], [v |-> 2025, w |-> 4] >>
    /\ jira_issue.customfield_10040.f
          = << [v |-> 2025, w |-> 4], [v |-> 7, w |-> 2], [v |-> 3, w |-> 2] >>

\* ------------------------------------------------------------------------
\* Properties of the period label
\* ------------------------------------------------------------------------
\* months since year 0 of the month that lies offset_months after the
\* current month
TargetMonths == now.y * 12 + (now.m - 1) + offset_months

\* C25: when no target period is given, get_date produces the period label
\* of the month that lies offset_months after the current month, with the
\* year rolled over correctly, for every current calendar date (the 29th,
\* 30th and 31st of a month included) and every integer offset; it never
\* fails because of the day of the month on which the run happens.
C25_LabelForEveryRunDay ==
    (pc # "clock" /\ ~date_input.given) =>
        /\ ~date_result.raised
        /\ date_result.year = TargetMonths \div 12
        /\ date_result.month_name
              = (IF language = "indonesian" THEN indonesian_months
                 ELSE english_months)[(TargetMonths % 12) + 1]

\* ------------------------------------------------------------------------
\* Properties of the row limit
\* ------------------------------------------------------------------------
\* the stage got through its entry checks: the only error left is the one
\* for a read that gave no data
SheetReached ==
    /\ pc = "formatted"
    /\ ("error" \in DOMAIN format_result =>
            format_result.error = "No data found in the spreadsheet")

\* C26: reading a sheet with max_rows = k (k >= 1) yields up to k data rows:
\* on a sheet with a header row and at least k data rows,
\* format_data_processor_flow processes exactly k rows, and with max_rows =
\* 1 on a non-empty sheet it processes one row and returns no error.
C26_MaxRowsCountsDataRows ==
    (SheetReached /\ max_rows >= 1 /\ Len(values) >= max_rows + 1) =>
        /\ "error" \notin DOMAIN format_result
        /\ Len(format_result.processed_rows) = max_rows
        /\ \A k \in 1..max_rows :
              format_result.processed_rows[k].original_data
                  = SheetRecord(HeaderRow, NormalizedRow(values[k + 1], Len(HeaderRow)))

\* ------------------------------------------------------------------------
\* Properties of a run of the whole pipeline
\* ------------------------------------------------------------------------
\* the positions of io_log at which `op` is issued on `target`
IssuedAt(op, target) ==
    {k \in 1..Len(io_log) : io_log[k].op = op /\ io_log[k].target = target}

\* C22: in one pipeline run the roster is read from its source exactly once
\* and each client's document is fetched at most once: a stage that comes
\* after the roster read (resp. after the fetch) does not read the roster
\* (resp. a document) again.
C22_RosterAndDocumentsReadOnce ==
    /\ Cardinality(IssuedAt("roster_read", <<"Clients">>)) <= 1
    /\ (pc = "returned" /\ world.google = "ok") =>
           Cardinality(IssuedAt("roster_read", <<"Clients">>)) = 1
    /\ \A k \in 1..Len(io_log) :
           io_log[k].op = "document_read" =>
               IssuedAt("document_read", io_log[k].target) = {k}

\* C23: within one pipeline run no stage reads a file that an earlier stage
\* of the run has written.
C23_NoFileReadBack ==
    \A k \in 1..Len(io_log) :
        io_log[k].op = "file_read" =>
            \A j \in 1..(k - 1) :
                ~(io_log[j].op = "file_write" /\ io_log[j].target = io_log[k].target)

\* the bulk requests of step 8
CreateCalls ==
    IF "create" \notin DOMAIN returned THEN <<>>
    ELSE SelectSeq(returned["create"].calls, LAMBDA c : c.op = "bulk")

\* the roster names are pairwise distinct
DistinctNames ==
    LET roster == RosterOf(world)
    IN \A i, j \in 1..Len(roster) : roster[i].Name = roster[j].Name => i = j

\* C28: when the client names are pairwise distinct, the transform stage
\* gives every client a file path of its own, and every bulk request of the
\* submission stage carries, under a client's name, the records the
\* transform stage produced for that client, once per client.
C28_OwnFileOwnRecords ==
    (DistinctNames /\ "convert" \in DOMAIN returned /\ ~Failed("convert")) =>
        LET jira_assets == returned["convert"].jira_assets
            files == returned["convert"].output_files.client_files
        IN /\ \A i, j \in 1..Len(files) :
                  files[i].file_path = files[j].file_path => i = j
           /\ \A k \in 1..Len(CreateCalls) :
                  \E a \in 1..Len(jira_assets) :
                      /\ jira_assets[a].client_name = CreateCalls[k].client_name
                      /\ CreateCalls[k].payload
                           = validate_bulk_issue_data(jira_assets[a].assets,
                                                      MainMaxIssues).valid_issues
           /\ \A k, q \in 1..Len(CreateCalls) :
                  CreateCalls[k].payload = CreateCalls[q].payload => k = q

\* ------------------------------------------------------------------------
\* Properties of the stages called on their own
\* ------------------------------------------------------------------------
\* what a stage has issued
IssuedBy(stage, ops) ==
    {k \in 1..Len(io_log) : io_log[k].stage = stage /\ io_log[k].op \in ops}

\* C21: when the connection test of a stage fails at its entry the stage
\* does no per-item work.  With get_server_info not reporting success the
\* per-client creation flow reads no client file, sends no bulk request and
\* returns an error with empty client_results.  With google_test_connection
\* not reporting success the roster read returns an error with no data, and
\* the search, filter, fetch and transform stages return an error without a
\* roster read, a folder query or a document read.
C21_FailedConnectionNoItemWork ==
    /\ ("create" \in DOMAIN returned /\ world.jira # "success") =>
           /\ Failed("create")
           /\ returned["create"].client_results = <<>>
           /\ IssuedBy("create", {"file_read", "bulk"}) = {}
    /\ ("roster" \in DOMAIN returned /\ world.google = "conn_failed") =>
           /\ Failed("roster")
           /\ returned["roster"].data = <<>>
    /\ \A stage \in {"roster", "search", "filter", "fetch", "convert"} :
           (stage \in DOMAIN returned /\ world.google = "conn_failed") =>
               /\ Failed(stage)
               /\ IssuedBy(stage, {"roster_read", "drive_query", "document_read"}) = {}

\* the transform stage has been called on a roster with a client that has a
\* content plan, while the Google connection test fails
C21_Witness ==
    /\ world.google = "conn_failed"
    /\ "convert" \in DOMAIN returned
    /\ Len(world.values) = 2
    /\ world.values[2] = <<"Acme", "folder-Acme">>
    /\ world.sheets[1].data # <<>>

\* the roster positions of the clients with a name and a folder reference
WorkUnits ==
    LET roster == RosterOf(world)
    IN {i \in 1..Len(roster) : roster[i].Name # "" /\ roster[i].FolderID # ""}

\* C29: a stage that returns no top-level error keeps one entry per work
\* unit.  The search output has one entry for every roster client with a
\* name and a folder reference, in roster order, its number the 1-based
\* roster position.  The fetch output has one entry per input item, in the
\* same order with the same number and client name, each with exactly one of
\* data or error, and successfully_processed + failed_processing =
\* total_content_plans.  The per-client submission output has one result per
\* entry of client_files, for the same client.
C29_OneEntryPerWorkUnit ==
    /\ ("search" \in DOMAIN returned /\ ~Failed("search")) =>
           LET output == returned["search"].output
               roster == RosterOf(world)
               units == WorkUnits
           IN /\ Len(output) = Cardinality(units)
              /\ \A k \in 1..Len(output) :
                     /\ output[k].number = KthOf(units, k)
                     /\ output[k].client_name = roster[output[k].number].Name
              /\ \A k \in 1..(Len(output) - 1) : output[k].number < output[k + 1].number
    /\ ("fetch" \in DOMAIN returned /\ ~Failed("fetch")) =>
           LET input == SearchStage(world).result.output
               plans == returned["fetch"].content_plans
               summary == returned["fetch"].summary
           IN /\ Len(plans) = Len(input)
              /\ \A k \in 1..Len(plans) :
                     /\ plans[k].number = input[k].number
                     /\ plans[k].client_name = input[k].client_name
                     /\ ("data" \in DOMAIN plans[k]) # ("error" \in DOMAIN plans[k])
              /\ summary.successfully_processed + summary.failed_processing
                    = summary.total_content_plans
              /\ summary.total_content_plans = Len(input)
    /\ \A stage \in {"validate", "create"} :
           (stage \in DOMAIN returned /\ ~Failed(stage)) =>
               LET files == returned["convert"].output_files.client_files
                   client_results == returned[stage].client_results
               IN /\ Len(client_results) = Len(files)
                  /\ \A k \in 1..Len(files) :
                         client_results[k].client_name = files[k].client_name

\* the fetch stage has returned two entries, the first with data and the
\* second with an error
C29_Witness ==
    /\ "fetch" \in DOMAIN returned
    /\ ~Failed("fetch")
    /\ Len(returned["fetch"].content_plans) = 2
    /\ "data" \in DOMAIN returned["fetch"].content_plans[1]
    /\ "error" \in DOMAIN returned["fetch"].content_plans[2]

====
